---- MODULE Spec2Model ----
(***************************************************************************)
(* Model of the lora-e5 driver.                                            *)
(*                                                                         *)
(*  - the actor runtime of lib/src/process.rs: Client calls, the bounded    *)
(*    intake channel, the dispatch loop Runtime::run, the blocking workers  *)
(*    it spawns and the one-shot reply channels (specification Spec, and   *)
(*    FairSpec for liveness);                                              *)
(*  - the response reader read_until_pattern of src/parse.rs, byte by byte  *)
(*    and tick by tick (specification ReadSpec).                           *)
(***************************************************************************)
EXTENDS Integers, Sequences, FiniteSets, TLC

(***************************************************************************)
(* Bounds of the model.                                                    *)
(***************************************************************************)
NumCallers == 2        \* concurrent caller tasks, each making one Client call
QueueCap == 2          \* capacity C of mpsc::channel(C)
MaxShutdowns == 1      \* Shutdown requests submitted in one behaviour

Callers == 1..NumCallers

(***************************************************************************)
(* Requests (process.rs, enum Request).  A request made by caller c is      *)
(* identified by c: it carries the one-shot sender of that call.  Shutdown  *)
(* carries no reply channel and has id 0.                                   *)
(***************************************************************************)
CallKinds == {"At", "Join", "Configure", "DataRate", "SendData", "SendAscii"}

ShutdownReq == [id |-> 0, kind |-> "Shutdown"]

Request(c, k) == [id |-> c, kind |-> k]

(***************************************************************************)
(* Engine errors a command can end with (lib/src/error.rs) and their        *)
(* wrapping by the runtime (process.rs, Error::LoraE5(#[from])).            *)
(***************************************************************************)
EngineErrors ==
    {"PartialResponse", "UnexpectedResponse", "IncorrectWrite", "Nack", "Parse"}

Ok(v) == [ok |-> TRUE, val |-> v]

Err(e) == [ok |-> FALSE, val |-> e]

WrapEngine(e) == <<"LoraE5", e>>

Pending == [ok |-> FALSE, val |-> <<"pending">>]

(***************************************************************************)
(* The engine calls made, in order, by the closure that Runtime::run hands  *)
(* to spawn_blocking for each request kind (process.rs 128-184).            *)
(***************************************************************************)
ClosureCalls(kind) ==
    CASE kind = "At" -> <<"write_command", "read_until_break">>
      [] kind = "Configure" ->
            <<"set_mode", "set_region", "set_credentials", "subband2_only">>
      [] kind = "Join" -> <<"join">>
      [] kind = "DataRate" -> <<"set_datarate">>
      [] kind = "SendData" -> <<"send">>
      [] kind = "SendAscii" -> <<"send_ascii">>

NumCalls(kind) == Len(ClosureCalls(kind))

(***************************************************************************)
(* Errors an engine call can end with (lib/src/lib.rs, src/parse.rs,        *)
(* src/credentials.rs): a short write, a read timeout, a reply that does    *)
(* not match, an identifier or signal that does not parse, a missing        *)
(* downlink on a confirmed send.                                            *)
(***************************************************************************)
CallErrors(call) ==
    CASE call = "write_command" -> {"IncorrectWrite"}
      [] call = "read_until_break" -> {"PartialResponse"}
      [] call \in {"join"} -> {"IncorrectWrite", "PartialResponse"}
      [] call \in {"set_mode", "set_region", "subband2_only", "set_datarate"} ->
            {"IncorrectWrite", "PartialResponse", "UnexpectedResponse"}
      [] call = "set_credentials" ->
            {"IncorrectWrite", "PartialResponse", "UnexpectedResponse", "Parse"}
      [] call \in {"send", "send_ascii"} -> EngineErrors

(***************************************************************************)
(* Calls that parse the reply with str::split_at, which panics when the     *)
(* reply is shorter than the expected prelude (framed_response,             *)
(* parse_rssi_snr).  write_command, the readers and join never do.          *)
(***************************************************************************)
CanPanic(call) ==
    call \notin {"write_command", "read_until_break", "join"}

VARIABLES
    queue,      \* the intake mpsc channel: requests not yet received
    handles,    \* callers that still hold a Client (an mpsc::Sender clone)
    loop,       \* the dispatch loop: [pc, cur, exit]
    worker,     \* per request: the spawn_blocking task [st, kind, step, result]
    mutex,      \* holder of the Mutex<LoraE5>, 0 when free
    poisoned,   \* the mutex was poisoned by a panicking worker
    callers,    \* per caller: [pc, kind, result]
    oneshot,    \* per request: its reply channel [st, val]
    shutdowns,  \* number of Shutdown requests submitted so far
    intake,     \* history: request ids in the order they entered the queue
    linkLog,    \* history: ids of the requests that used the serial link,
                \* consecutive uses by the same request merged
    replied,    \* history: requests whose reply was delivered
    replyFailed,\* history: requests whose reply could not be delivered
    \* --- one LoraE5 session under read_until_pattern (src/parse.rs) ---
    rdpc,       \* "idle", "loop" (inside the call) or "done" (returned)
    pattern,    \* the terminator passed to the call
    timeout,    \* the timeout passed to the call, in ticks
    buf,        \* self.buf: [u8; N], kept from call to call
    cursor,     \* the local cursor
    elapsed,    \* time.elapsed(): ticks since the local `time` was set
    rdres,      \* the value the call returned
    received,   \* history: the bytes the reads of this call delivered
    total,      \* history: ticks since the call started
    sinceData   \* history: ticks since the last byte arrived in this call
                \* (since the call started if none did)

rvars == <<queue, handles, loop, worker, mutex, poisoned, callers, oneshot,
           shutdowns, intake, linkLog, replied, replyFailed>>

rdvars == <<rdpc, pattern, timeout, buf, cursor, elapsed, rdres, received,
            total, sinceData>>

VARIABLES
    \* --- the serial port's input side (the device's unread bytes) ---
    wire,       \* bytes the device sent that no read has taken yet
    overflow,   \* history: a read of this call found more bytes waiting
                \* than the buffer had room for
    stale,      \* history: how many of the first bytes of wire were
                \* waiting already when this call began (sent in reply
                \* to an earlier command)
    taken,      \* history: how many such bytes this call has read
    lastErr,    \* history: the latest read of this call returned Err
    allErr      \* history: every read of this call returned Err

ptvars == <<wire, overflow, stale, taken, lastErr, allErr>>

VARIABLES
    \* --- the response parsers applied to one text (src/parse.rs) ---
    text,       \* the response text handed to the parser
    pres        \* the parser applied last and what it gave: [fn, prelude, out]

pvars == <<text, pres>>

VARIABLES
    \* --- one engine operation on a session (lib/src/lib.rs) ---
    epc,        \* "idle", or where the running command is: "write",
                \* "newline", "read"; "done" when the operation has ended
    eop,        \* the operation called, with its arguments
    estep,      \* which command of the operation is running
    portLog,    \* history: the port calls of this operation, in order
    eres        \* what the operation returned

evars == <<epc, eop, estep, portLog, eres>>

\* What the actions of one part of the program leave alone.
notRuntime == <<rdvars, ptvars, pvars, evars>>
notRead == <<rvars, ptvars, pvars, evars>>
notPort == <<rvars, pvars, evars>>
notParse == <<rvars, rdvars, ptvars, evars>>
notEngine == <<rvars, rdvars, ptvars, pvars>>

NoWorker == [st |-> "none", kind |-> "none", step |-> 0, result |-> Pending]

IdleCaller == [pc |-> "idle", kind |-> "none", result |-> Pending]

RuntimeInit ==
    /\ queue = <<>>
    /\ handles = Callers
    /\ loop = [pc |-> "recv", cur |-> 0, exit |-> "none"]
    /\ worker = [c \in Callers |-> NoWorker]
    /\ mutex = 0
    /\ poisoned = FALSE
    /\ callers = [c \in Callers |-> IdleCaller]
    /\ oneshot = [c \in Callers |-> [st |-> "none", val |-> Pending]]
    /\ shutdowns = 0
    /\ intake = <<>>
    /\ linkLog = <<>>
    /\ replied = {}
    /\ replyFailed = {}


(***************************************************************************)
(* Channel helpers.                                                        *)
(***************************************************************************)
\* Mutant of ChannelClosed: the receiver outlives run().
ChannelStaysOpen == FALSE

\* The receiver half lives in Runtime, which run() consumes: it is dropped,
\* and the channel closed, exactly when run() returns.
ChannelClosed == loop.pc = "terminated"

\* Mutant of RecvIndex: the newest request is received first.
RecvIndexNewest(q) == Len(q)

\* mpsc::Receiver::recv yields the oldest queued request.
RecvIndex(q) == 1

RecvNext(q) == q[RecvIndex(q)]

RecvRest(q) ==
    SubSeq(q, 1, RecvIndex(q) - 1) \o SubSeq(q, RecvIndex(q) + 1, Len(q))

\* Mutant of DropSenders: the unanswered senders are kept alive.
KeepSenders(os, ids) == os

\* Dropping a request that was never answered drops its oneshot::Sender.
DropSenders(os, ids) ==
    [c \in Callers |->
        IF c \in ids /\ os[c].st = "open"
        THEN [st |-> "txDropped", val |-> Pending]
        ELSE os[c]]

QueuedIds(q) == {q[i].id : i \in 1..Len(q)} \ {0}

\* run() returns: the receiver and every request still queued are dropped,
\* and so is the sender of the request being handled, if it was not used.
Terminate(exit, q, cur) ==
    /\ loop' = [pc |-> "terminated", cur |-> 0, exit |-> exit]
    /\ queue' = <<>>
    /\ oneshot' = DropSenders(oneshot, QueuedIds(q) \cup ({cur} \ {0}))

Touch(log, id) ==
    IF log # <<>> /\ log[Len(log)] = id THEN log ELSE Append(log, id)

(***************************************************************************)
(* Client (process.rs 27-79).                                              *)
(***************************************************************************)
\* The outcome of polling self.sender.send(request): an error once the
\* channel is closed, the request queued when a slot is free, and otherwise
\* the caller stays suspended in send().
TrySend(c, k) ==
    IF ChannelClosed
    THEN /\ callers' = [callers EXCEPT ![c] =
                [pc |-> "returned", kind |-> "none",
                 result |-> Err(<<"RequestSendError">>)]]
         /\ oneshot' = [oneshot EXCEPT ![c] = [st |-> "dropped", val |-> Pending]]
         /\ UNCHANGED <<queue, intake>>
    ELSE IF Len(queue) < QueueCap
    THEN /\ queue' = Append(queue, Request(c, k))
         /\ intake' = Append(intake, c)
         /\ callers' = [callers EXCEPT ![c] =
                [pc |-> "waiting", kind |-> "none", result |-> Pending]]
         /\ oneshot' = [oneshot EXCEPT ![c] = [st |-> "open", val |-> Pending]]
    ELSE /\ callers' = [callers EXCEPT ![c] =
                [pc |-> "sending", kind |-> k, result |-> Pending]]
         /\ oneshot' = [oneshot EXCEPT ![c] = [st |-> "open", val |-> Pending]]
         /\ UNCHANGED <<queue, intake>>

\* A Client call (at_command, join, data_rate, configure, send, send_ascii):
\* let (tx, rx) = oneshot::channel(); self.sender.send(Request::..).await?
BeginCall(c, k) ==
    /\ k \in CallKinds
    /\ c \in handles
    /\ callers[c].pc = "idle"
    /\ TrySend(c, k)
    /\ UNCHANGED notRuntime
    /\ UNCHANGED <<handles, loop, worker, mutex, poisoned, shutdowns,
                   linkLog, replied, replyFailed>>

\* A caller suspended in send() is woken: a slot was freed or the channel
\* was closed.
Enqueue(c) ==
    /\ callers[c].pc = "sending"
    /\ ChannelClosed \/ Len(queue) < QueueCap
    /\ TrySend(c, callers[c].kind)
    /\ UNCHANGED notRuntime
    /\ UNCHANGED <<handles, loop, worker, mutex, poisoned, shutdowns,
                   linkLog, replied, replyFailed>>

\* rx.await?  : the reply, or ResponseReceiveError when the sender was
\* dropped without a reply.
CallerRecv(c) ==
    /\ callers[c].pc = "waiting"
    /\ oneshot[c].st \in {"sent", "txDropped"}
    /\ callers' = [callers EXCEPT ![c].pc = "returned",
                      ![c].result = IF oneshot[c].st = "sent"
                                    THEN oneshot[c].val
                                    ELSE Err(<<"ResponseReceiveError">>)]
    /\ oneshot' = [oneshot EXCEPT ![c] = [st |-> "taken", val |-> Pending]]
    /\ UNCHANGED notRuntime
    /\ UNCHANGED <<queue, handles, loop, worker, mutex, poisoned, shutdowns,
                   intake, linkLog, replied, replyFailed>>

\* The caller drops the future of its call while awaiting the reply: the
\* oneshot::Receiver is dropped with it.
CallerCancel(c) ==
    /\ callers[c].pc = "waiting"
    /\ callers' = [callers EXCEPT ![c].pc = "cancelled"]
    /\ oneshot' = [oneshot EXCEPT ![c] = [st |-> "rxDropped", val |-> Pending]]
    /\ UNCHANGED notRuntime
    /\ UNCHANGED <<queue, handles, loop, worker, mutex, poisoned, shutdowns,
                   intake, linkLog, replied, replyFailed>>

\* Client::send_shutdown, by any task that holds a Client.
SendShutdown ==
    /\ handles # {}
    /\ shutdowns < MaxShutdowns
    /\ shutdowns' = shutdowns + 1
    /\ IF ChannelClosed
       THEN UNCHANGED <<queue, intake>>
       ELSE /\ Len(queue) < QueueCap
            /\ queue' = Append(queue, ShutdownReq)
            /\ intake' = Append(intake, 0)
    /\ UNCHANGED notRuntime
    /\ UNCHANGED <<handles, loop, worker, mutex, poisoned, callers, oneshot,
                   linkLog, replied, replyFailed>>

\* A caller task that is not inside a call ends and drops its Client.
DropHandle(c) ==
    /\ c \in handles
    /\ callers[c].pc \in {"idle", "returned", "cancelled"}
    /\ handles' = handles \ {c}
    /\ callers' = [callers EXCEPT ![c] = [IdleCaller EXCEPT !.pc = "gone"]]
    /\ UNCHANGED notRuntime
    /\ UNCHANGED <<queue, loop, worker, mutex, poisoned, oneshot,
                   shutdowns, intake, linkLog, replied, replyFailed>>

(***************************************************************************)
(* Workers: the closures run by task::spawn_blocking (process.rs 128-184).  *)
(***************************************************************************)
\* let mut lora_e5 = lora_e5.lock().unwrap();
WorkerLock(id) ==
    /\ worker[id].st = "spawned"
    /\ mutex = 0
    /\ IF poisoned
       THEN /\ worker' = [worker EXCEPT ![id] = [NoWorker EXCEPT !.st = "panicked"]]
            /\ UNCHANGED mutex
       ELSE /\ worker' = [worker EXCEPT ![id].st = "running"]
            /\ mutex' = id
    /\ UNCHANGED notRuntime
    /\ UNCHANGED <<queue, handles, loop, poisoned, callers, oneshot,
                   shutdowns, intake, linkLog, replied, replyFailed>>

\* The guard is held from the lock() at the top of the closure to its end.
HoldsSession(id) == mutex = id

\* Mutant of GuardAfterCall: the session is locked for one engine call at a
\* time and unlocked after it.
GuardPerCall(id, last) == 0

\* The holder of the mutex after an engine call of the closure of request
\* id: the guard is dropped only when the closure is left (last).
GuardAfterCall(id, last) == IF last THEN 0 ELSE id

\* The closure's value.  The At closure converts an engine error with `?`
\* into process::Error itself; the others return the engine's Result.
ClosureOk(kind) == Ok(<<"value">>)

ClosureErr(kind, e) == IF kind = "At" THEN Err(WrapEngine(e)) ELSE Err(<<e>>)

\* One engine call of the closure.  The device decides how it ends: the call
\* succeeds, it fails with an engine error (the `?`, or the end of the
\* closure, returns it), or the parsing panics.  The guard is dropped when
\* the closure is left.
WorkerCmd(id) ==
    LET w == worker[id] IN
    /\ w.st = "running"
    /\ HoldsSession(id)
    /\ w.step < NumCalls(w.kind)
    /\ linkLog' = Touch(linkLog, id)
    /\ \/ /\ worker' = [worker EXCEPT ![id] =
                 IF w.step + 1 = NumCalls(w.kind)
                 THEN [st |-> "finished", kind |-> "none", step |-> 0,
                       result |-> ClosureOk(w.kind)]
                 ELSE [w EXCEPT !.step = w.step + 1]]
          /\ mutex' = GuardAfterCall(id, w.step + 1 = NumCalls(w.kind))
          /\ UNCHANGED poisoned
       \/ /\ \E e \in CallErrors(ClosureCalls(w.kind)[w.step + 1]) :
                 worker' = [worker EXCEPT ![id] =
                     [st |-> "finished", kind |-> "none", step |-> 0,
                      result |-> ClosureErr(w.kind, e)]]
          /\ mutex' = GuardAfterCall(id, TRUE)
          /\ UNCHANGED poisoned
       \/ /\ CanPanic(ClosureCalls(w.kind)[w.step + 1])
          /\ worker' = [worker EXCEPT ![id] =
                 [st |-> "panicked", kind |-> "none", step |-> 0,
                  result |-> Pending]]
          /\ mutex' = GuardAfterCall(id, TRUE)
          /\ poisoned' = TRUE
    /\ UNCHANGED notRuntime
    /\ UNCHANGED <<queue, handles, loop, callers, oneshot, shutdowns, intake,
                   replied, replyFailed>>

(***************************************************************************)
(* The dispatch loop Runtime::run (process.rs 122-193).                     *)
(***************************************************************************)
\* Mutant of LoopShutdown: Shutdown is skipped and the loop goes on.
LoopShutdownIgnored(rest) ==
    /\ queue' = rest
    /\ UNCHANGED <<loop, oneshot, worker>>

\* Request::Shutdown => return Ok(())
LoopShutdown(rest) ==
    /\ Terminate("Ok", rest, 0)
    /\ UNCHANGED worker

\* while let Some(request) = self.receiver.recv().await { match request ..
\* Shutdown returns Ok(()); any other request spawns its blocking closure.
\* recv() yields None once the queue is empty and every Client is dropped.
LoopRecv ==
    /\ loop.pc = "recv"
    /\ IF queue # <<>>
       THEN LET r == RecvNext(queue) IN
            IF r.kind = "Shutdown"
            THEN LoopShutdown(RecvRest(queue))
            ELSE /\ queue' = RecvRest(queue)
                 /\ worker' = [worker EXCEPT ![r.id] =
                        [st |-> "spawned", kind |-> r.kind, step |-> 0,
                         result |-> Pending]]
                 /\ loop' = [pc |-> "await", cur |-> r.id, exit |-> "none"]
                 /\ UNCHANGED oneshot
       ELSE /\ handles = {}
            /\ Terminate("Ok", queue, 0)
            /\ UNCHANGED worker
    /\ UNCHANGED notRuntime
    /\ UNCHANGED <<handles, mutex, poisoned, callers, shutdowns, intake,
                   linkLog, replied, replyFailed>>

\* Mutant of WorkerJoined: the loop goes on as soon as the closure is
\* spawned, without awaiting its end.
WorkerJoinedEarly(id) == worker[id].st # "none"

\* The JoinHandle of the spawned closure is ready.
WorkerJoined(id) == worker[id].st \in {"finished", "panicked"}

\* Mutant of ReplyOf: every engine error is replied as UnexpectedResponse.
ReplyOfReinterpreted(result) ==
    IF result.ok THEN result ELSE Err(WrapEngine("UnexpectedResponse"))

\* result.map_err(|e| e.into()) : an engine error becomes Error::LoraE5(e).
\* The value of the At closure is a process::Result already and is replied
\* as it is.
ReplyOf(result) ==
    IF result.ok \/ Len(result.val) = 2
    THEN result
    ELSE Err(WrapEngine(result.val[1]))

\* Mutant of JoinFailed: the JoinError of a panicked closure is not
\* propagated.
JoinFailedIgnored(w) == FALSE

\* .await? : the JoinHandle of a closure that panicked yields Err(JoinError),
\* which the `?` returns from run() as Error::Join.
JoinFailed(w) == w.st = "panicked"

\* The JoinHandle is consumed by the await, and the closure's value with it.
Joined(w) ==
    IF w.st \in {"finished", "panicked"}
    THEN [w EXCEPT !.st = "joined", !.result = Pending]
    ELSE w

\* task::spawn_blocking(..).await? ; respond(sender, result)?;
\* A panicked closure gives a JoinError and run() returns Error::Join.  A
\* reply whose receiver is gone gives ResponseSendError and run() returns it.
LoopJoin ==
    LET id == loop.cur
        w == worker[id]
    IN
    /\ loop.pc = "await"
    /\ WorkerJoined(id)
    /\ IF JoinFailed(w)
       THEN /\ Terminate("Join", queue, id)
            /\ UNCHANGED <<replied, replyFailed>>
       ELSE IF oneshot[id].st = "rxDropped"
       THEN /\ Terminate("ResponseSendError", queue, 0)
            /\ replyFailed' = replyFailed \cup {id}
            /\ UNCHANGED replied
       ELSE /\ oneshot' = [oneshot EXCEPT ![id] =
                   [st |-> "sent", val |-> ReplyOf(w.result)]]
            /\ replied' = replied \cup {id}
            /\ loop' = [pc |-> "recv", cur |-> 0, exit |-> "none"]
            /\ UNCHANGED <<queue, replyFailed>>
    /\ worker' = [worker EXCEPT ![id] = Joined(w)]
    /\ UNCHANGED notRuntime
    /\ UNCHANGED <<handles, mutex, poisoned, callers, shutdowns, intake,
                   linkLog>>

RuntimeNext ==
    \/ \E c \in Callers, k \in CallKinds : BeginCall(c, k)
    \/ \E c \in Callers : Enqueue(c)
    \/ \E c \in Callers : CallerRecv(c)
    \/ \E c \in Callers : CallerCancel(c)
    \/ SendShutdown
    \/ \E c \in Callers : DropHandle(c)
    \/ LoopRecv
    \/ LoopJoin
    \/ \E id \in Callers : WorkerLock(id)
    \/ \E id \in Callers : WorkerCmd(id)

(***************************************************************************)
(* read_until_pattern (src/parse.rs 8-28) on one session.                   *)
(*                                                                         *)
(* Bytes are classes of u8: an ASCII letter, the line feed, the lead byte   *)
(* of a two-byte UTF-8 sequence and its continuation byte.  Time is         *)
(* counted in ticks of the serial port's read timeout.                      *)
(***************************************************************************)
BufCap == 3            \* the capacity N of LoraE5<N>
MaxTimeout == 2        \* largest timeout a call is given, in ticks
PollTicks == 1         \* the port's own read timeout (10 ms), one tick

Bytes == {"a", "nl", "lead", "cont"}

Patterns == {<<"nl">>, <<"a", "nl">>}

RECURSIVE SeqsUpTo(_)
\* All byte sequences of length 1..n.
SeqsUpTo(n) ==
    IF n = 0 THEN {}
    ELSE LET shorter == SeqsUpTo(n - 1)
         IN  {<<b>> : b \in Bytes}
             \cup {Append(s, b) : s \in shorter, b \in Bytes}

\* std::str::from_utf8 on these classes: a lead byte must be followed by a
\* continuation byte, and a continuation byte must follow a lead byte.
ValidUtf8(s) ==
    \A i \in 1..Len(s) :
        /\ s[i] = "lead" => (i < Len(s) /\ s[i + 1] = "cont")
        /\ s[i] = "cont" => (i > 1 /\ s[i - 1] = "lead")

\* str::ends_with(pattern)
EndsWith(s, p) ==
    /\ Len(s) >= Len(p)
    /\ SubSeq(s, Len(s) - Len(p) + 1, Len(s)) = p

\* Mutant of ReadInto: every read fills the buffer from its start.
ReadIntoStart(b, cur, chunk) ==
    [i \in 1..BufCap |-> IF i <= Len(chunk) THEN chunk[i] ELSE b[i]]

\* self.port.read(&mut self.buf[cursor..]) that returned Ok(Len(chunk)):
\* the bytes land in the buffer from the cursor on.
ReadInto(b, cur, chunk) ==
    [i \in 1..BufCap |->
        IF i > cur /\ i <= cur + Len(chunk) THEN chunk[i - cur] ELSE b[i]]

\* &self.buf[..cursor]
Accumulated(b, cur) == SubSeq(b, 1, cur)

\* time.elapsed() > timeout
TimedOut(el, t) == el > t

\* Mutant of ClockAfter: every read restarts the clock, also an empty one.
ClockAlwaysRestarted(el, n, d) == 0

\* Mutant of ClockAfter: the clock set at the start of the call is never
\* set again.
ClockNeverRestarted(el, n, d) == el + d

\* `time` after a read: restarted by a read that returned bytes.
ClockAfter(el, n, d) == IF n # 0 THEN 0 ELSE el + d

\* Mutant of AfterRead: succeeds when the terminator occurs anywhere in the
\* accumulated bytes.
AfterReadScanning(b, cur, el, p, t) ==
    IF ~ValidUtf8(Accumulated(b, cur)) THEN Err(<<"Utf8">>)
    ELSE IF \E i \in 1..cur : EndsWith(Accumulated(b, i), p) THEN Ok(cur)
    ELSE IF TimedOut(el, t) THEN Err(<<"PartialResponse", Accumulated(b, cur)>>)
    ELSE Pending

\* The checks that follow the read in one iteration of the loop: the UTF-8
\* decoding (`?`), the terminator, then the deadline.  "loop" when none of
\* them leaves the loop.
AfterRead(b, cur, el, p, t) ==
    IF ~ValidUtf8(Accumulated(b, cur)) THEN Err(<<"Utf8">>)
    ELSE IF EndsWith(Accumulated(b, cur), p) THEN Ok(cur)
    ELSE IF TimedOut(el, t) THEN Err(<<"PartialResponse", Accumulated(b, cur)>>)
    ELSE Pending

ReadInit ==
    /\ rdpc = "idle"
    /\ pattern = <<"nl">>
    /\ timeout = 0
    /\ buf = [i \in 1..BufCap |-> "a"]
    /\ cursor = 0
    /\ elapsed = 0
    /\ rdres = Pending
    /\ received = <<>>
    /\ total = 0
    /\ sinceData = 0

\* let mut cursor = 0; let mut time = time::Instant::now();
BeginRead(p, t) ==
    /\ rdpc = "idle"
    /\ rdpc' = "loop"
    /\ pattern' = p
    /\ timeout' = t
    /\ cursor' = 0
    /\ elapsed' = 0
    /\ rdres' = Pending
    /\ received' = <<>>
    /\ total' = 0
    /\ sinceData' = 0
    /\ UNCHANGED buf

\* One iteration of the loop.  The polling read takes d ticks and returns
\* the bytes the device has sent by then (chunk, at most as many as fit
\* after the cursor), Ok(0), or an error, which the `if let Ok(n)` ignores.
Iterate(chunk, d) ==
    /\ rdpc = "loop"
    /\ Len(chunk) <= BufCap - cursor
    /\ LET n == Len(chunk)
           b == ReadInto(buf, cursor, chunk)
           cur == cursor + n
           el == ClockAfter(elapsed, n, d)
           res == AfterRead(b, cur, el, pattern, timeout)
       IN  /\ buf' = b
           /\ cursor' = cur
           /\ elapsed' = el
           /\ rdres' = res
           /\ rdpc' = IF res = Pending THEN "loop" ELSE "done"
           /\ received' = received \o chunk
           /\ total' = total + d
           /\ sinceData' = IF n # 0 THEN 0 ELSE sinceData + d
    /\ UNCHANGED <<pattern, timeout>>

\* The caller takes the result; the session is ready for the next call,
\* with the buffer as the call left it.
EndRead ==
    /\ rdpc = "done"
    /\ rdpc' = "idle"
    /\ rdres' = Pending
    /\ UNCHANGED <<pattern, timeout, buf, cursor, elapsed, received, total,
                   sinceData>>

\* read_until_pattern fed with whatever each read returns.
RdCall(p, t) == BeginRead(p, t) /\ UNCHANGED notRead

RdStep(chunk, d) == Iterate(chunk, d) /\ UNCHANGED notRead

RdReturn == EndRead /\ UNCHANGED notRead

ReadNext ==
    \/ \E p \in Patterns, t \in 0..MaxTimeout : RdCall(p, t)
    \/ \E chunk \in SeqsUpTo(BufCap) \cup {<<>>}, d \in 0..PollTicks :
           RdStep(chunk, d)
    \/ RdReturn

(***************************************************************************)
(* read_until_pattern fed from the port's input queue: the device sends     *)
(* bytes at any time, a read takes what is waiting, at most as many as fit  *)
(* after the cursor (the slice buf[cursor..] is empty once the buffer is    *)
(* full), or fails and is ignored.                                          *)
(***************************************************************************)
MaxWire == 4           \* most bytes waiting unread at the port

\* The bytes the device is let to send here: plain ASCII text and line
\* feeds (the decoding of other bytes is exercised by ReadNext).
WireBytes == {"a", "nl"}

Take(s, k) == SubSeq(s, 1, k)

Drop(s, k) == SubSeq(s, k + 1, Len(s))

\* The slice handed to port.read: what is left of the buffer.
Room(cur) == BufCap - cur

Min(a, b) == IF a <= b THEN a ELSE b

PortInit ==
    /\ wire = <<>>
    /\ overflow = FALSE
    /\ stale = 0
    /\ taken = 0
    /\ lastErr = FALSE
    /\ allErr = TRUE

\* A call has been made on the session: one is running, or the last one
\* left its cursor or its duration behind (a call reads a byte or lasts
\* longer than its timeout before it returns).
Asked == rdpc # "idle" \/ cursor > 0 \/ total > 0

\* The device sends a byte of its reply to the latest command, while the
\* call reads or after it has returned.
DeviceSend(b) ==
    /\ Asked
    /\ Len(wire) < MaxWire
    /\ wire' = Append(wire, b)
    /\ UNCHANGED <<overflow, stale, taken, lastErr, allErr>>
    /\ UNCHANGED rdvars
    /\ UNCHANGED notPort

\* A command has been written and its reply is read: nothing is done about
\* the bytes that are waiting at the port.
PortCall(p, t) ==
    /\ BeginRead(p, t)
    /\ overflow' = FALSE
    /\ stale' = Len(wire)
    /\ taken' = 0
    /\ lastErr' = FALSE
    /\ allErr' = TRUE
    /\ UNCHANGED wire
    /\ UNCHANGED notPort

\* Mutant of BytesRead: a read that returned Err has filled the slice.
BytesReadDespiteErr(fails, waiting, room) == Min(waiting, room)

\* if let Ok(n) = self.port.read(&mut self.buf[cursor..]): the bytes of a
\* read that returned Ok (what is waiting, at most the slice), none of one
\* that returned Err.
BytesRead(fails, waiting, room) == IF fails THEN 0 ELSE Min(waiting, room)

PortStep(fails, d) ==
    LET k == BytesRead(fails, Len(wire), Room(cursor))
    IN  /\ Iterate(Take(wire, k), d)
        /\ wire' = Drop(wire, k)
        /\ overflow' = (overflow \/ (~fails /\ Len(wire) > Room(cursor)))
        /\ stale' = stale - Min(k, stale)
        /\ taken' = taken + Min(k, stale)
        /\ lastErr' = fails
        /\ allErr' = (allErr /\ fails)
        /\ UNCHANGED notPort

PortReturn ==
    /\ EndRead
    /\ UNCHANGED ptvars
    /\ UNCHANGED notPort

PortNext ==
    \/ \E b \in WireBytes : DeviceSend(b)
    \/ \E p \in Patterns, t \in 0..MaxTimeout : PortCall(p, t)
    \/ \E fails \in BOOLEAN, d \in 0..PollTicks : PortStep(fails, d)
    \/ PortReturn

(***************************************************************************)
(* Response texts and their parsers (src/parse.rs 30-52).  Texts are        *)
(* strings of ASCII characters.                                             *)
(***************************************************************************)
\* A panic of the running thread (not a value the function returns).
Panicked == [ok |-> FALSE, val |-> <<"panic">>]

\* The characters char::is_whitespace accepts that a device line can hold.
Whitespace == {" ", "\t", "\n", "\r"}

LastChar(s) == SubSeq(s, Len(s), Len(s))

\* Mutant of TrimEnd: only trailing CR and LF are trimmed.
RECURSIVE TrimEndCrLf(_)
TrimEndCrLf(s) ==
    IF s # "" /\ LastChar(s) \in {"\n", "\r"}
    THEN TrimEndCrLf(SubSeq(s, 1, Len(s) - 1))
    ELSE s

RECURSIVE TrimEnd(_)
\* str::trim_end: trailing whitespace removed.
TrimEnd(s) ==
    IF s # "" /\ LastChar(s) \in Whitespace
    THEN TrimEnd(SubSeq(s, 1, Len(s) - 1))
    ELSE s

\* framed_response: response.split_at(expected_prelude.len()) panics when
\* the response is shorter than the prelude.
FramedResponse(response, expected_prelude) ==
    IF Len(expected_prelude) > Len(response) THEN Panicked
    ELSE LET prelude == SubSeq(response, 1, Len(expected_prelude))
             mode_response ==
                 SubSeq(response, Len(expected_prelude) + 1, Len(response))
         IN  IF prelude = expected_prelude
             THEN Ok(mode_response)
             ELSE Err(<<"UnexpectedResponse", response>>)

\* check_framed_response
CheckFramedResponse(response, expected_prelude, expected_response) ==
    LET framed == FramedResponse(response, expected_prelude)
    IN  IF ~framed.ok THEN framed
        ELSE IF TrimEnd(framed.val) = expected_response THEN Ok("")
        ELSE Err(<<"UnexpectedResponse", framed.val>>)

\* The preludes the engine expects (lib.rs, credentials.rs).
Preludes ==
    {"+AT: ", "+VER: ", "+MODE: ", "+DR: ", "+PORT: ", "+CH: CH",
     "+ID: AppEui, ", "+ID: DevEui, ", "+KEY: APPKEY "}

\* Response texts: a head (a prelude, a piece of one, something else, or
\* nothing), a payload and a line end.
Heads == {"", "+", "+MODE", "+MODE: ", "+DR: ", "+AT: ", "+CH: CH", "ERROR"}

Payloads == {"", "OK", "LWOTAA", "US915", "3 off"}

LineEnds == {"", "\r\n", " \r\n"}

Texts == {h \o p \o e : h \in Heads, p \in Payloads, e \in LineEnds}

NotParsed == [fn |-> "none", prelude |-> "", out |-> Pending]

ParserInit ==
    /\ text = ""
    /\ pres = NotParsed

Framed(prelude) ==
    /\ pres' = [fn |-> "framed_response", prelude |-> prelude,
                out |-> FramedResponse(text, prelude)]
    /\ UNCHANGED text
    /\ UNCHANGED notParse

(***************************************************************************)
(* Identifiers (src/credentials.rs 19-56): byte arrays of a declared size,  *)
(* parsed from hex text and displayed as upper-case hex.                    *)
(***************************************************************************)
HexUpper == "0123456789ABCDEF"

HexLower == "0123456789abcdef"

CharAt(s, i) == SubSeq(s, i, i)

IsHexDigit(c) ==
    \E i \in 1..16 : CharAt(HexUpper, i) = c \/ CharAt(HexLower, i) = c

HexVal(c) ==
    CHOOSE v \in 0..15 :
        CharAt(HexUpper, v + 1) = c \/ CharAt(HexLower, v + 1) = c

RECURSIVE WithoutColons(_)
\* s.retain(|c| c != ':')
WithoutColons(s) ==
    IF s = "" THEN ""
    ELSE (IF CharAt(s, 1) = ":" THEN "" ELSE CharAt(s, 1))
             \o WithoutColons(SubSeq(s, 2, Len(s)))

\* hex::decode
HexDecode(s) ==
    IF Len(s) % 2 # 0 THEN Err(<<"FromHex", "OddLength">>)
    ELSE IF \E i \in 1..Len(s) : ~IsHexDigit(CharAt(s, i))
    THEN Err(<<"FromHex", "InvalidHexCharacter">>)
    ELSE Ok([i \in 1..(Len(s) \div 2) |->
                16 * HexVal(CharAt(s, 2 * i - 1)) + HexVal(CharAt(s, 2 * i))])

\* Mutant of FromStr: bytes beyond the size are dropped.
FromStrTruncating(s, size) ==
    LET byte_vec == HexDecode(WithoutColons(s))
    IN  IF ~byte_vec.ok THEN byte_vec
        ELSE IF Len(byte_vec.val) < size
        THEN Err(<<"VecWrongSize", Len(byte_vec.val)>>)
        ELSE Ok(SubSeq(byte_vec.val, 1, size))

\* FromStr::from_str of an identifier of `size` bytes
FromStr(s, size) ==
    LET byte_vec == HexDecode(WithoutColons(s))
    IN  IF ~byte_vec.ok THEN byte_vec
        ELSE IF Len(byte_vec.val) # size
        THEN Err(<<"VecWrongSize", Len(byte_vec.val)>>)
        ELSE byte_vec

RECURSIVE HexEncode(_, _)
\* hex::encode with the digits of `digits`
HexEncode(bytes, digits) ==
    IF bytes = <<>> THEN ""
    ELSE CharAt(digits, (bytes[1] \div 16) + 1)
             \o CharAt(digits, (bytes[1] % 16) + 1)
             \o HexEncode(Tail(bytes), digits)

\* Mutant of Display: the hex as hex::encode gives it, in lower case.
DisplayLowerCase(id) == HexEncode(id, HexLower)

\* Display of an identifier: hex::encode(..).to_uppercase()
Display(id) == HexEncode(id, HexUpper)

(***************************************************************************)
(* Searching a text (str::contains, str::find) and the numbers parsed from  *)
(* one (str::parse).                                                        *)
(***************************************************************************)
None == <<"None">>

Some(v) == <<"Some", v>>

\* The byte offsets at which pat occurs in s.
Occurrences(s, pat) ==
    {i \in 0..(Len(s) - Len(pat)) : SubSeq(s, i + 1, i + Len(pat)) = pat}

\* str::contains
Contains(s, pat) == Occurrences(s, pat) # {}

\* Mutant of Find: the offset of the last occurrence.
FindLast(s, pat) ==
    IF Occurrences(s, pat) = {} THEN None
    ELSE Some(CHOOSE i \in Occurrences(s, pat) :
                  \A j \in Occurrences(s, pat) : i >= j)

\* str::find: the offset of the first occurrence.
Find(s, pat) ==
    IF Occurrences(s, pat) = {} THEN None
    ELSE Some(CHOOSE i \in Occurrences(s, pat) :
                  \A j \in Occurrences(s, pat) : i <= j)

Digits == "0123456789"

IsDigit(c) == \E i \in 1..10 : CharAt(Digits, i) = c

DigitVal(c) == CHOOSE v \in 0..9 : CharAt(Digits, v + 1) = c

RECURSIVE DigitsValue(_)
\* The number a run of decimal digits denotes.
DigitsValue(s) ==
    IF s = "" THEN 0
    ELSE 10 * DigitsValue(SubSeq(s, 1, Len(s) - 1)) + DigitVal(LastChar(s))

AllDigits(s) == \A i \in 1..Len(s) : IsDigit(CharAt(s, i))

\* The text after an optional sign.
Unsigned(s) ==
    IF s # "" /\ CharAt(s, 1) \in {"+", "-"} THEN SubSeq(s, 2, Len(s)) ELSE s

Sign(s) == IF s # "" /\ CharAt(s, 1) = "-" THEN -1 ELSE 1

\* str::parse::<isize>: an optional sign and one digit or more (values that
\* fit an isize).
ParseInt(s) ==
    IF Unsigned(s) = "" \/ ~AllDigits(Unsigned(s)) THEN Err(<<"ParseIntError">>)
    ELSE Ok(Sign(s) * DigitsValue(Unsigned(s)))

RECURSIVE Decimal(_, _)
\* The number num / 10^exp, written with the least exp.
Decimal(num, exp) ==
    IF exp > 0 /\ num % 10 = 0 THEN Decimal(num \div 10, exp - 1)
    ELSE [num |-> num, exp |-> exp]

\* str::parse::<f32>: an optional sign, digits with at most one point among
\* them, one digit at least (exponents and the names inf and nan are not
\* among the texts read here, nor are numbers an f32 has to round).
ParseF32(s) ==
    LET body == Unsigned(s)
        point == Find(body, ".")
        whole == IF point = None THEN body ELSE SubSeq(body, 1, point[2])
        frac == IF point = None THEN ""
                ELSE SubSeq(body, point[2] + 2, Len(body))
    IN  IF whole \o frac = "" \/ ~AllDigits(whole \o frac)
        THEN Err(<<"ParseFloatError">>)
        ELSE Ok(Decimal(Sign(s) * DigitsValue(whole \o frac), Len(frac)))

\* parse_rssi_snr: every split_at panics when the text is shorter than the
\* offset it is given.
ParseRssiSnr(response, m) ==
    IF m > Len(response) THEN Panicked
    ELSE
    LET remaining_str == SubSeq(response, m + 1, Len(response))
        n == Find(remaining_str, "\r\n")
    IN  IF n = None THEN Err(<<"FailedToParseRssiSnr", response>>)
        ELSE
        LET line == SubSeq(remaining_str, 1, n[2])
        IN  IF Len(", RSSI ") > Len(line) THEN Panicked
            ELSE
            LET signal == SubSeq(line, Len(", RSSI ") + 1, Len(line))
                k == Find(signal, ", ")
            IN  IF k = None THEN Err(<<"FailedToParseRssiSnr", response>>)
                ELSE
                LET rssi_remainder == SubSeq(signal, 1, k[2])
                    snr_remainder == SubSeq(signal, k[2] + 1, Len(signal))
                IN  IF Len(" RSSI ") > Len(rssi_remainder) THEN Panicked
                    ELSE IF Len(", SNR ") > Len(snr_remainder) THEN Panicked
                    ELSE
                    LET rssi == ParseInt(SubSeq(rssi_remainder,
                                     Len(" RSSI ") + 1, Len(rssi_remainder)))
                        snr == ParseF32(SubSeq(snr_remainder,
                                    Len(", SNR ") + 1, Len(snr_remainder)))
                    IN  IF ~rssi.ok THEN Err(<<"FailedToParseRssiInt">>)
                        ELSE IF ~snr.ok THEN Err(<<"FailedToParseSnrF32">>)
                        ELSE Ok(<<rssi.val, snr.val>>)

(***************************************************************************)
(* The engine's commands (lib/src/lib.rs, src/credentials.rs).  A command   *)
(* is what its function hands to write_command and how it reads the reply:  *)
(* cmd, the prelude, and the check made on the rest.  text is the command   *)
(* text the caller asked for.                                               *)
(***************************************************************************)
EuiSize == 8           \* derive_from_str!(AppEui, 8), (DevEui, 8)
KeySize == 16          \* derive_from_str!(AppKey, 16)

\* Mode::as_str
ModeStr(mode) ==
    CASE mode = "Test" -> "TEST"
      [] mode = "Abp" -> "LWABP"
      [] mode = "Otaa" -> "LWOTAA"

\* Region::as_str
RegionStr(region) ==
    CASE region = "Eu868" -> "EU868"
      [] region = "Us915" -> "US915"

Command(fn, t, c, prelude, check, expect, id, size) ==
    [fn |-> fn, text |-> t, cmd |-> c, prelude |-> prelude, check |-> check,
     expect |-> expect, id |-> id, size |-> size]

Echoed(fn, c, prelude, expect) ==
    Command(fn, c, c, prelude, "echo", expect, <<>>, 0)

SetMode(mode) ==
    Echoed("set_mode", "AT+MODE=" \o ModeStr(mode), "+MODE: ", ModeStr(mode))

SetRegion(region) ==
    Echoed("set_region", "AT+DR=" \o RegionStr(region), "+DR: ",
           RegionStr(region))

SetPort(port) ==
    Echoed("set_port", "AT+PORT=" \o ToString(port), "+PORT: ",
           ToString(port))

\* Mutant of SetChannel: the reply is expected to name the state asked for.
SetChannelEchoed(ch, enable) ==
    Echoed("set_channel",
           "AT+CH=" \o ToString(ch) \o "," \o (IF enable THEN "on" ELSE "off"),
           "+CH: CH", ToString(ch) \o (IF enable THEN " on" ELSE " off"))

SetChannel(ch, enable) ==
    Echoed("set_channel",
           "AT+CH=" \o ToString(ch) \o "," \o (IF enable THEN "on" ELSE "off"),
           "+CH: CH", ToString(ch) \o " off")

SetIdentifier(fn, c, prelude, id, size) ==
    Command(fn, c, c, prelude, "id", "", id, size)

SetDevEui(dev_eui) ==
    SetIdentifier("set_dev_eui", "AT+ID=DevEui, " \o Display(dev_eui),
                  "+ID: DevEui, ", dev_eui, EuiSize)

SetAppEui(app_eui) ==
    SetIdentifier("set_app_eui", "AT+ID=AppEui, " \o Display(app_eui),
                  "+ID: AppEui, ", app_eui, EuiSize)

SetAppKey(app_key) ==
    SetIdentifier("set_app_key", "AT+KEY=APPKEY, " \o Display(app_key),
                  "+KEY: APPKEY ", app_key, KeySize)

\* is_ok: "AT", the reply read up to the line feed, checked against the
\* prelude "+AT: " and the payload "OK".
IsOk == Command("is_ok", "AT", "AT", "+AT: ", "is_ok", "OK", <<>>, 0)

\* Client::at_command: cmd.push('\n') before the request is sent.
AtCommand(cmd) == cmd \o "\n"

\* The closure of Request::At: the command as received, the reply as read.
RawAt(cmd) ==
    Command("at_command", cmd, AtCommand(cmd), "", "raw", "", <<>>, 0)

JOIN_DONE == "+JOIN: Done\r\n"

ALREADY_JOINED == "+JOIN: Joined already\r\n"

\* join: the reply is read until it ends with JOIN_DONE or ALREADY_JOINED.
Join == Command("join", "AT+JOIN", "AT+JOIN", "", "join", "", <<>>, 0)

\* force_join: the reply is read until it ends with JOIN_DONE.
ForceJoin ==
    Command("force_join", "AT+JOIN=FORCE", "AT+JOIN=FORCE", "", "force_join",
            "", <<>>, 0)

UpperCase == "ABCDEFGHIJKLMNOPQRSTUVWXYZ"

LowerCase == "abcdefghijklmnopqrstuvwxyz"

\* The byte of a letter, a digit or a space.
AsByte(c) ==
    IF c = " " THEN 32
    ELSE IF IsDigit(c) THEN 48 + DigitVal(c)
    ELSE IF \E k \in 1..26 : CharAt(UpperCase, k) = c
    THEN 64 + CHOOSE k \in 1..26 : CharAt(UpperCase, k) = c
    ELSE 96 + CHOOSE k \in 1..26 : CharAt(LowerCase, k) = c

\* str::as_bytes of a text of letters, digits and spaces
AsBytes(s) == [i \in 1..Len(s) |-> AsByte(CharAt(s, i))]

\* The uplink command of send (MSGHEX, CMSGHEX) and send_ascii (MSG, CMSG):
\* format!("AT+{}=\"{hex}\"", ..) with hex::encode of the payload; expect is
\* end_line, the text the reply is read up to.
Uplink(fn, name, bytes, confirmed) ==
    Command(fn, "AT+" \o name \o "=\"" \o HexEncode(bytes, HexLower) \o "\"",
            "AT+" \o name \o "=\"" \o HexEncode(bytes, HexLower) \o "\"", "",
            IF confirmed THEN "confirmed" ELSE "unconfirmed",
            "+" \o name \o ": Done\r\n", <<>>, 0)

(***************************************************************************)
(* The operations as the sequences of commands they run, each followed by   *)
(* `?` (the last one's result being the operation's).                       *)
(***************************************************************************)
\* for n in a..b { self.set_channel(n, false)?; }
ChannelsOff(a, b) == [i \in 1..(b - a) |-> SetChannel(a + i - 1, FALSE)]

\* Mutant of Subband2Only: the first 80 channels.
Subband2OnlyEighty == ChannelsOff(0, 80)

Subband2Only == ChannelsOff(0, 8) \o ChannelsOff(16, 72)

SetCredentials(credentials) ==
    <<SetDevEui(credentials.dev_eui), SetAppEui(credentials.app_eui),
      SetAppKey(credentials.app_key)>>

\* Mutant of Configure: the subband restriction before the credentials.
ConfigureSubbandFirst(credentials) ==
    <<SetMode("Otaa"), SetRegion("Us915")>> \o Subband2Only
        \o SetCredentials(credentials)

Configure(credentials) ==
    <<SetMode("Otaa"), SetRegion("Us915")>> \o SetCredentials(credentials)
        \o Subband2Only

\* Mutant of Send: the uplink command before the port is set.
SendUplinkFirst(data, port, confirmed) ==
    <<Uplink("send", IF confirmed THEN "CMSGHEX" ELSE "MSGHEX", data,
             confirmed),
      SetPort(port)>>

\* send: self.set_port(port)?, then the uplink command.
Send(data, port, confirmed) ==
    <<SetPort(port),
      Uplink("send", IF confirmed THEN "CMSGHEX" ELSE "MSGHEX", data,
             confirmed)>>

\* send_ascii: self.set_port(port)?, then the uplink command.
SendAscii(data, port, confirmed) ==
    <<SetPort(port),
      Uplink("send_ascii", IF confirmed THEN "CMSG" ELSE "MSG", AsBytes(data),
             confirmed)>>

Plan(op) ==
    CASE op[1] = "at_command" -> <<RawAt(op[2])>>
      [] op[1] = "configure" -> Configure(op[2])
      [] op[1] = "set_credentials" -> SetCredentials(op[2])
      [] op[1] = "subband2_only" -> Subband2Only
      [] op[1] = "is_ok" -> <<IsOk>>
      [] op[1] = "set_mode" -> <<SetMode(op[2])>>
      [] op[1] = "set_region" -> <<SetRegion(op[2])>>
      [] op[1] = "set_port" -> <<SetPort(op[2])>>
      [] op[1] = "set_channel" -> <<SetChannel(op[2], op[3])>>
      [] op[1] = "join" -> <<Join>>
      [] op[1] = "force_join" -> <<ForceJoin>>
      [] op[1] = "request_join" -> IF op[2] THEN <<ForceJoin>> ELSE <<Join>>
      [] op[1] = "send" -> Send(op[2], op[3], op[4])
      [] op[1] = "send_ascii" -> SendAscii(op[2], op[3], op[4])

(***************************************************************************)
(* What a command makes of the terminated reply it read.                    *)
(***************************************************************************)
\* Mutant of CheckIdentifier: any echo that parses is accepted.
CheckIdentifierAnyEcho(response, command) ==
    LET framed == FramedResponse(response, command.prelude)
    IN  IF ~framed.ok THEN framed
        ELSE LET parsed == FromStr(TrimEnd(framed.val), command.size)
             IN  IF ~parsed.ok THEN Err(<<"Parse", parsed.val>>) ELSE Ok("")

\* set_dev_eui / set_app_eui / set_app_key after the read: the echo is
\* framed, trimmed, parsed (`?`) and compared with the value requested.
CheckIdentifier(response, command) ==
    LET framed == FramedResponse(response, command.prelude)
    IN  IF ~framed.ok THEN framed
        ELSE LET parsed == FromStr(TrimEnd(framed.val), command.size)
             IN  IF ~parsed.ok THEN Err(<<"Parse", parsed.val>>)
                 ELSE IF parsed.val = command.id THEN Ok("")
                 ELSE Err(<<"UnexpectedResponse",
                            IF command.fn = "set_app_key" THEN framed.val
                            ELSE Display(parsed.val)>>)

\* Mutant of JoinResponseOf: "Network joined" is looked for first.
JoinNetworkFirst(response) ==
    IF Contains(response, "Network joined") THEN "JoinComplete"
    ELSE IF Contains(response, ALREADY_JOINED) THEN "AlreadyJoined"
    ELSE "JoinFailed"

\* join after the read: the JoinResponse of the accumulated reply.
JoinResponseOf(response) ==
    IF Contains(response, ALREADY_JOINED) THEN "AlreadyJoined"
    ELSE IF Contains(response, "Network joined") THEN "JoinComplete"
    ELSE "JoinFailed"

\* Mutant of ForceJoinResponseOf: classified as join classifies.
ForceJoinAsJoin(response) == JoinResponseOf(response)

\* force_join after the read.
ForceJoinResponseOf(response) ==
    IF Contains(response, "Network joined") THEN "JoinComplete"
    ELSE "JoinFailed"

\* What parse_rssi_snr(response, m)? gives send: a Downlink, or its error.
DownlinkAt(response, m) ==
    LET parsed == ParseRssiSnr(response, m)
    IN  IF ~parsed.ok THEN parsed
        ELSE Ok(Some([rssi |-> parsed.val[1], snr |-> parsed.val[2]]))

\* Mutant of UplinkResult: RXWIN2 is looked for before RXWIN1.
UplinkResultSecondFirst(response, confirmed) ==
    IF Find(response, "RXWIN2") # None
    THEN DownlinkAt(response, Find(response, "RXWIN2")[2])
    ELSE IF Find(response, "RXWIN1") # None
    THEN DownlinkAt(response, Find(response, "RXWIN1")[2])
    ELSE IF confirmed THEN Err(<<"Nack">>)
    ELSE Ok(None)

\* send and send_ascii after the read.
UplinkResult(response, confirmed) ==
    IF Find(response, "RXWIN1") # None
    THEN DownlinkAt(response, Find(response, "RXWIN1")[2])
    ELSE IF Find(response, "RXWIN2") # None
    THEN DownlinkAt(response, Find(response, "RXWIN2")[2])
    ELSE IF confirmed THEN Err(<<"Nack">>)
    ELSE Ok(None)

\* is_ok after the read: Ok(check_framed_response(..).is_ok()), the bool
\* written "true" or "false"; a panic inside the check is not a value.
IsOkResult(response, command) ==
    LET checked ==
            CheckFramedResponse(response, command.prelude, command.expect)
    IN  IF checked.ok THEN Ok("true")
        ELSE IF checked = Panicked THEN Panicked
        ELSE Ok("false")

Validate(command, response) ==
    CASE command.check = "echo" ->
             CheckFramedResponse(response, command.prelude, command.expect)
      [] command.check = "is_ok" -> IsOkResult(response, command)
      [] command.check = "id" -> CheckIdentifier(response, command)
      [] command.check = "raw" -> Ok(response)
      [] command.check = "join" -> Ok(JoinResponseOf(response))
      [] command.check = "force_join" -> Ok(ForceJoinResponseOf(response))
      [] command.check = "confirmed" -> UplinkResult(response, TRUE)
      [] command.check = "unconfirmed" -> UplinkResult(response, FALSE)

(***************************************************************************)
(* Inputs: the operations called and what the port and the device answer.   *)
(***************************************************************************)
Identifier(hex) == HexDecode(hex).val

\* The credentials of src/tests.rs, and a second set.
CredentialSets ==
    {[dev_eui |-> Identifier("6081F9A775278564"),
      app_eui |-> Identifier("6081F9A498856DCC"),
      app_key |-> Identifier("72F36B996179E634537FCA76047D0B51")],
     [dev_eui |-> Identifier("111111111111111A"),
      app_eui |-> Identifier("00000000000000FF"),
      app_key |-> Identifier("111111111111111A111111111111111A")]}

AtTexts == {"AT", "AT+ID"}

Modes == {"Test", "Abp", "Otaa"}

Regions == {"Eu868", "Us915"}

PortNumbers == {0, 5, 255}

ChannelNumbers == {0, 8, 71}

BinaryPayloads == {<<1, 171>>}

AsciiPayloads == {"hi"}

Operations ==
    {<<"at_command", c>> : c \in AtTexts}
        \cup {<<"is_ok">>}
        \cup {<<"configure", c>> : c \in CredentialSets}
        \cup {<<"set_credentials", c>> : c \in CredentialSets}
        \cup {<<"subband2_only">>}
        \cup {<<"set_mode", mode>> : mode \in Modes}
        \cup {<<"set_region", region>> : region \in Regions}
        \cup {<<"set_port", port>> : port \in PortNumbers}
        \cup {<<"set_channel", ch, enable>> :
                  ch \in ChannelNumbers, enable \in BOOLEAN}
        \cup {<<"join">>, <<"force_join">>}
        \cup {<<"request_join", force>> : force \in BOOLEAN}
        \cup {<<"send", data, port, confirmed>> :
                  data \in BinaryPayloads, port \in PortNumbers,
                  confirmed \in BOOLEAN}
        \cup {<<"send_ascii", data, port, confirmed>> :
                  data \in AsciiPayloads, port \in PortNumbers,
                  confirmed \in BOOLEAN}

\* port.write(data): all of the bytes, fewer, or an I/O error.
WriteChoices == {"all", "short", "none", "io"}

WriteOutcome(choice, len) ==
    CASE choice = "all" -> Ok(len)
      [] choice = "short" -> Ok(len - 1)
      [] choice = "none" -> Ok(0)
      [] choice = "io" -> Err(<<"Io">>)

RECURSIVE WithColons(_)
\* Hex text with a colon between the bytes, as the device prints it.
WithColons(hex) ==
    IF Len(hex) <= 2 THEN hex
    ELSE SubSeq(hex, 1, 2) \o ":" \o WithColons(SubSeq(hex, 3, Len(hex)))

\* Another identifier of the same size.
OtherIdentifier(id) ==
    [i \in 1..Len(id) |-> IF i = Len(id) THEN (id[i] + 1) % 256 ELSE id[i]]

\* What the device may print after the prelude.
EchoTexts(command) ==
    CASE command.check = "echo" ->
             <<command.expect, command.expect \o "0", "ERROR(-1)", "">>
                 \o (IF command.fn = "set_channel"
                     THEN <<SubSeq(command.expect, 1, Len(command.expect) - 3)
                                \o "on">>
                     ELSE <<>>)
      [] command.check = "id" ->
             <<Display(command.id), HexEncode(command.id, HexLower),
               WithColons(Display(command.id)),
               WithColons(Display(OtherIdentifier(command.id))),
               Display(Tail(command.id)), "6G", "608">>
      [] command.check = "raw" -> <<"+AT: OK", "">>
      [] command.check = "is_ok" ->
             <<command.expect, command.expect \o " ", "OK0", "ERROR(-1)", "",
               "ok">>

MaxEchoTexts == 7       \* most texts EchoTexts lists for a command

\* The texts a command's reply is read up to: those of read_until_pattern
\* for join, force_join and the uplinks, the line feed of read_until_break
\* for the others.
Until(command) ==
    CASE command.check = "join" -> {JOIN_DONE, ALREADY_JOINED}
      [] command.check = "force_join" -> {JOIN_DONE}
      [] command.check \in {"confirmed", "unconfirmed"} -> {command.expect}
      [] OTHER -> {"\n"}

\* The read returns a reply once it ends with one of the texts.
Terminated(reply, patterns) == \E p \in patterns : EndsWith(reply, p)

\* What the device may print for a join.
JoinReplies ==
    <<"+JOIN: Start\r\n+JOIN: NORMAL\r\n+JOIN: Network joined\r\n"
          \o "+JOIN: NetID 000024 DevAddr 48:00:00:01\r\n" \o JOIN_DONE,
      "+JOIN: Start\r\n+JOIN: NORMAL\r\n+JOIN: Join failed\r\n" \o JOIN_DONE,
      JOIN_DONE,
      ALREADY_JOINED \o JOIN_DONE,
      "+JOIN: Network joined\r\n" \o ALREADY_JOINED \o JOIN_DONE,
      ALREADY_JOINED,
      "+JOIN: Network joined\r\n" \o ALREADY_JOINED>>

\* What the device may print for an uplink, every line after the prefix
\* ("+MSGHEX: ", ..) of its command.
UplinkLines ==
    <<<<"Start", "Wait ACK", "ACK Received",
        "RXWIN1, RSSI -79, SNR 7.0", "Done">>,
      <<"Start", "Wait ACK", "Done">>,
      <<"Start", "Wait ACK", "ACK Received", "Done">>,
      <<"Start", "RXWIN2, RSSI -106, SNR -3.5", "Done">>,
      <<"Start", "RXWIN2, RSSI -106, SNR -3.5",
        "RXWIN1, RSSI -79, SNR 7.0", "Done">>,
      <<"Start", "FPENDING", "Done">>,
      <<"RXWIN1, RSSI low, SNR 7.0", "Done">>,
      <<"RXWIN1", "Done">>>>

RECURSIVE Lines(_, _)
\* The lines, each after the prefix and ended with CR LF.
Lines(prefix, lines) ==
    IF lines = <<>> THEN ""
    ELSE prefix \o lines[1] \o "\r\n" \o Lines(prefix, Tail(lines))

\* The replies among which a command's is drawn.
Replies(command) ==
    CASE command.check \in {"join", "force_join"} -> JoinReplies
      [] command.check \in {"confirmed", "unconfirmed"} ->
             [i \in 1..Len(UplinkLines) |->
                 Lines(SubSeq(command.expect, 1,
                              Len(command.expect) - Len("Done\r\n")),
                       UplinkLines[i])]
      [] OTHER -> <<>>

MaxReplies == 8         \* most texts Replies lists for a command

\* The line ends of a reply that read_until_break returned.
Terminators == LineEnds \ {""}

\* read_until_break: a terminated reply (the prelude and an echo, a reply
\* with another head, a bare line end), or PartialResponse with what had
\* arrived.
ReadChoices ==
    {<<"echo", i, e>> : i \in 1..MaxEchoTexts, e \in Terminators}
        \cup {<<"reply", i>> : i \in 1..MaxReplies}
        \cup {<<"other">>, <<"bare">>}
        \cup {<<"partial", p>> : p \in {"", "+"}}

ReadOutcome(choice, command) ==
    CASE choice[1] = "echo" ->
             Ok(command.prelude \o EchoTexts(command)[choice[2]] \o choice[3])
      [] choice[1] = "reply" -> Ok(Replies(command)[choice[2]])
      [] choice[1] = "other" -> Ok("+CMD: ERROR(-1), unknown\r\n")
      [] choice[1] = "bare" -> Ok("\r\n")
      [] choice[1] = "partial" -> Err(<<"PartialResponse", choice[2]>>)

(***************************************************************************)
(* An operation on the session, one port call at a time.                    *)
(***************************************************************************)
NoOperation == <<"none">>

EngineInit ==
    /\ epc = "idle"
    /\ eop = NoOperation
    /\ estep = 0
    /\ portLog = <<>>
    /\ eres = Pending

\* The command that is running.
Running == Plan(eop)[estep]

\* Entries of the history: the call, what it was given, what it returned,
\* and whether the function that made it went on (good) or returned there.
PortWrite(data, ret, good) ==
    [call |-> "write", data |-> data, ret |-> ret, good |-> good]

PortRead(ret, good) ==
    [call |-> "read", data |-> "", ret |-> ret, good |-> good]

\* Of the replies read, the history keeps the text of the latest only.
Earlier(log) ==
    [i \in 1..Len(log) |->
        IF log[i].call = "read" THEN PortRead(Ok(""), log[i].good)
        ELSE log[i]]

\* Mutant of WriteChecked: the byte count a write returns is not looked at.
WriteUnchecked(ret, len) == IF ~ret.ok THEN ret ELSE Ok("")

\* write_command after a write: `?` on the I/O error, then
\* if n != len { return Err(Error::IncorrectWrite(n, len)) }
WriteChecked(ret, len) ==
    IF ~ret.ok THEN ret
    ELSE IF ret.val # len THEN Err(<<"IncorrectWrite", ret.val, len>>)
    ELSE Ok("")

\* Mutant of AfterCommand: a failed command does not stop the operation.
AfterCommandCarryOn(v, step, n) ==
    IF step < n
    THEN [pc |-> "write", step |-> step + 1, res |-> Pending]
    ELSE [pc |-> "done", step |-> step, res |-> v]

\* `?` after a command of the operation: an error (or a panic) ends the
\* operation there, otherwise the next command runs; the value of the last
\* command is the operation's.
AfterCommand(v, step, n) ==
    IF ~v.ok THEN [pc |-> "done", step |-> step, res |-> v]
    ELSE IF step < n
    THEN [pc |-> "write", step |-> step + 1, res |-> Pending]
    ELSE [pc |-> "done", step |-> step, res |-> v]

\* An engine function is called.
ECall(op) ==
    /\ epc = "idle"
    /\ epc' = "write"
    /\ eop' = op
    /\ estep' = 1
    /\ portLog' = <<>>
    /\ eres' = Pending
    /\ UNCHANGED notEngine

\* write_command: self.port.write(cmd.as_bytes())
EWriteCmd(choice) ==
    /\ epc = "write"
    /\ LET data == Running.cmd
           ret == WriteOutcome(choice, Len(data))
           checked == WriteChecked(ret, Len(data))
       IN  /\ portLog' =
                  Append(Earlier(portLog), PortWrite(data, ret, checked.ok))
           /\ epc' = IF checked.ok THEN "newline" ELSE "done"
           /\ eres' = IF checked.ok THEN eres ELSE checked
    /\ UNCHANGED <<eop, estep>>
    /\ UNCHANGED notEngine

\* write_command: self.port.write("\n".as_bytes())
EWriteNl(choice) ==
    /\ epc = "newline"
    /\ LET data == "\n"
           ret == WriteOutcome(choice, Len(data))
           checked == WriteChecked(ret, Len(data))
       IN  /\ portLog' = Append(portLog, PortWrite(data, ret, checked.ok))
           /\ epc' = IF checked.ok THEN "read" ELSE "done"
           /\ eres' = IF checked.ok THEN eres ELSE checked
    /\ UNCHANGED <<eop, estep>>
    /\ UNCHANGED notEngine

\* read_until_break(..)? or read_until_pattern(..)?, and the command's
\* check of the reply.
ERead(choice) ==
    /\ epc = "read"
    /\ choice[1] = "echo" =>
           /\ Running.check \in {"echo", "id", "raw", "is_ok"}
           /\ choice[2] <= Len(EchoTexts(Running))
    /\ choice[1] = "reply" => choice[2] <= Len(Replies(Running))
    /\ LET ret == ReadOutcome(choice, Running)
           v == IF ret.ok THEN Validate(Running, ret.val) ELSE ret
           after == AfterCommand(v, estep, Len(Plan(eop)))
       IN  /\ ret.ok => Terminated(ret.val, Until(Running))
           /\ portLog' = Append(portLog, PortRead(ret, v.ok))
           /\ epc' = after.pc
           /\ estep' = after.step
           /\ eres' = after.res
    /\ UNCHANGED eop
    /\ UNCHANGED notEngine

\* The operation's caller has its result.
EReturn ==
    /\ epc = "done"
    /\ epc' = "idle"
    /\ eop' = NoOperation
    /\ estep' = 0
    /\ portLog' = <<>>
    /\ eres' = Pending
    /\ UNCHANGED notEngine

EngineNext ==
    \/ \E op \in Operations : ECall(op)
    \/ \E choice \in WriteChoices : EWriteCmd(choice)
    \/ \E choice \in WriteChoices : EWriteNl(choice)
    \/ \E choice \in ReadChoices : ERead(choice)
    \/ EReturn

(***************************************************************************)
(* The parsers of signal lines and of identifiers, applied to texts.        *)
(***************************************************************************)
Markers == {"RXWIN1", "RXWIN2"}

\* RSSI and SNR fields as printed, with the numbers they denote.
RssiSamples ==
    {[text |-> "-79", value |-> -79], [text |-> "-106", value |-> -106],
     [text |-> "0", value |-> 0]}

SnrSamples ==
    {[text |-> "7.0", value |-> [num |-> 7, exp |-> 0]],
     [text |-> "-3.5", value |-> [num |-> -35, exp |-> 1]],
     [text |-> "12", value |-> [num |-> 12, exp |-> 0]]}

SignalLine(marker, rssi, snr) ==
    marker \o ", RSSI " \o rssi \o ", SNR " \o snr \o "\r\n"

\* The response of the test parse_signal.
TestResponse ==
    "+CMSGHEX: Start\r\n    +CMSGHEX: Wait ACK\r\n    +CMSGHEX: FPENDING\r\n"
        \o "    +CMSGHEX: ACK Received\r\n"
        \o "    +CMSGHEX: RXWIN1, RSSI -79, SNR 7.0\r\n"
        \o "    +CMSGHEX: Done\r\n"

\* What precedes and what follows the marker in a response.
Befores ==
    {"", "+CMSGHEX: Start\r\n    +CMSGHEX: ",
     "+MSG: RXWIN2, RSSI -1, SNR 0.5\r\n+MSG: "}

Afters == {"", "+CMSGHEX: Done\r\n"}

\* Marker lines that are not of the form of SignalLine.
MalformedLines ==
    {"RXWIN1\r\n", "RXWIN2", "RXWIN1, RSSI -79, SNR 7.0",
     "RXWIN1, RSSI -79 SNR 7.0\r\n", "RXWIN1, RSSI low, SNR 7.0\r\n",
     "RXWIN2, RSSI -79, SNR high\r\n", "RXWIN1, RSSI , SNR 7.0\r\n",
     "RXWIN1, RSSI -79, SNR \r\n", "RXWIN1, -79, SNR 7.0\r\n",
     "RXWIN2, RSSI -79, 7\r\n", "RXWIN1, RSSI -79, \r\n"}

SignalTexts ==
    {TestResponse}
        \cup {b \o SignalLine(marker, r.text, s.text) \o a :
                  b \in Befores, marker \in Markers, r \in RssiSamples,
                  s \in SnrSamples, a \in Afters}
        \cup {b \o l \o a :
                  b \in {"", "+CMSGHEX: "}, l \in MalformedLines, a \in Afters}

\* Identifier texts: of 8 and of 16 bytes in either case and with colons,
\* of other lengths, and texts that are not hex.
IdentifierTexts ==
    {"6081F9A775278564", "6081f9a775278564", "60:81:F9:A7:75:27:85:64",
     ":6081f9A4:98856dCC:", "72F36B996179E634537FCA76047D0B51",
     "72:f3:6b:99:61:79:e6:34:53:7f:ca:76:04:7d:0b:51",
     "", "60", ":", "6081F9A7752785", "60:81:F9:A7:75:27:85:64:00",
     "72F36B996179E634537FCA76047D0B", "72F36B996179E634537FCA76047D0B5100",
     "608", "6G", "60-81-F9-A7-75-27-85-64"}

ParsedTexts == Texts \cup SignalTexts \cup IdentifierTexts

\* parse_rssi_snr(response, m) with m the offset of a marker.
Signal(m) ==
    /\ \E marker \in Markers : m \in Occurrences(text, marker)
    /\ pres' = [fn |-> "parse_rssi_snr", m |-> m,
                out |-> ParseRssiSnr(text, m)]
    /\ UNCHANGED text
    /\ UNCHANGED notParse

\* An identifier of `size` bytes parsed from an identifier text, displayed,
\* and parsed again from what was displayed.
Parse(size) ==
    /\ text \in IdentifierTexts
    /\ LET id == FromStr(text, size)
           shown == IF id.ok THEN Display(id.val) ELSE ""
       IN  pres' = [fn |-> "from_str", size |-> size, out |-> id,
                    shown |-> shown,
                    again |-> IF id.ok THEN FromStr(shown, size) ELSE id]
    /\ UNCHANGED text
    /\ UNCHANGED notParse

MaxOffset == 140        \* offsets tried for a marker (the longest text)

ParseNext ==
    \/ \E prelude \in Preludes : Framed(prelude)
    \/ \E m \in 0..MaxOffset : Signal(m)
    \/ \E size \in {EuiSize, KeySize} : Parse(size)

vars == <<rvars, rdvars, ptvars, pvars, evars>>

Init == RuntimeInit /\ ReadInit /\ PortInit /\ ParserInit /\ EngineInit

Next == RuntimeNext

Spec == Init /\ [][Next]_vars

ReadSpec == Init /\ [][ReadNext]_vars

PortSpec == Init /\ [][PortNext]_vars

\* The parsers applied to every text of ParsedTexts.
ParseInit ==
    /\ RuntimeInit /\ ReadInit /\ PortInit /\ EngineInit
    /\ text \in ParsedTexts
    /\ pres = NotParsed

ParseSpec == ParseInit /\ [][ParseNext]_vars

EngineSpec == Init /\ [][EngineNext]_vars

(***************************************************************************)
(* Fairness: the tokio scheduler polls every ready task, a spawned          *)
(* blocking closure runs to its end, and a caller inside a call keeps       *)
(* polling it.  Starting a call, cancelling it, sending Shutdown and         *)
(* dropping a Client are the callers' choices and carry no fairness.        *)
(***************************************************************************)
Fairness ==
    /\ WF_vars(LoopRecv)
    /\ WF_vars(LoopJoin)
    /\ \A id \in Callers : WF_vars(WorkerLock(id)) /\ WF_vars(WorkerCmd(id))
    /\ \A c \in Callers : WF_vars(Enqueue(c)) /\ WF_vars(CallerRecv(c))

FairSpec == Init /\ [][Next]_vars /\ Fairness

(***************************************************************************)
(* Properties of the runtime.                                              *)
(***************************************************************************)
\* Closures spawned and not yet ended.
Unfinished == {id \in Callers : worker[id].st \in {"spawned", "running"}}

\* Closures inside an engine operation.
Executing == {id \in Callers : worker[id].st = "running"}

\* Position of id in the intake history, 0 when it never entered.
IntakePos(id) ==
    IF \E i \in 1..Len(intake) : intake[i] = id
    THEN CHOOSE i \in 1..Len(intake) :
             intake[i] = id /\ \A j \in 1..(i - 1) : intake[j] # id
    ELSE 0

\* C1: at most one engine operation executes against the session at any
\* time, at most one closure is alive, and the loop is back at recv() (about
\* to dequeue) only when no closure is alive.
C1_OneOperationInFlight ==
    /\ Cardinality(Executing) <= 1
    /\ Cardinality(Unfinished) <= 1
    /\ loop.pc = "recv" => Unfinished = {}
    /\ \A id \in Unfinished : loop.pc = "await" /\ loop.cur = id

\* A closure is executing while another request waits in the queue.
C1_Witness ==
    /\ Executing # {}
    /\ queue # <<>>
    /\ queue[1].kind # "Shutdown"

\* C2: requests are serviced in intake order: when the operation of a
\* request has started, every request that entered the queue before it has
\* had its operation run and its reply sent.
C2_FifoService ==
    \A i, j \in 1..Len(intake) :
        (i < j /\ intake[i] # 0 /\ intake[j] # 0
               /\ worker[intake[j]].st # "none")
            => intake[i] \in replied

\* Two requests were serviced one after the other.
C2_Witness ==
    /\ Len(intake) >= 2
    /\ intake[1] # 0 /\ intake[2] # 0
    /\ intake[1] \in replied /\ intake[2] \in replied

\* C3: the uses of the serial link by one request are contiguous: no other
\* request uses the link between two engine calls of a request, and a
\* closure holds the session lock without a gap from its first engine call
\* to its last.
C3_NoInterleaving ==
    /\ \A i, j \in 1..Len(linkLog) : linkLog[i] = linkLog[j] => i = j
    /\ \A id \in Executing : HoldsSession(id)

\* A Configure request is between two of its engine calls, after another
\* request used the link.
C3_Witness ==
    /\ Len(linkLog) = 2
    /\ \E id \in Executing :
           /\ worker[id].kind = "Configure"
           /\ worker[id].step >= 2
           /\ linkLog[2] = id

\* C4: a reply that cannot be delivered, its receiver being gone, does not
\* end the dispatch loop: the loop is back at recv() after it.
C4_ReplyFailureKeepsRunning ==
    [][replyFailed' # replyFailed => loop'.pc = "recv"]_vars

\* The Shutdown request was received by the loop (not dropped with the queue
\* by a failing run()).
ShutdownReceived ==
    /\ IntakePos(0) # 0
    /\ \A i \in 1..Len(queue) : queue[i].kind # "Shutdown"
    /\ loop.exit \notin {"Join", "ResponseSendError"}

\* C5: once Shutdown is dequeued the loop has ended; no operation ever runs
\* for a request queued behind it, and every request queued before it has had
\* its operation run and its reply sent.
C5_ShutdownEndsLoop ==
    ShutdownReceived =>
        /\ loop.pc = "terminated"
        /\ \A i \in 1..Len(intake) :
               /\ (i < IntakePos(0) /\ intake[i] # 0) => intake[i] \in replied
               /\ (i > IntakePos(0) /\ intake[i] # 0) =>
                      worker[intake[i]].st = "none"

\* Shutdown was received with one request served before it and one request
\* queued behind it.
C5_Witness ==
    /\ ShutdownReceived
    /\ Len(intake) = 3
    /\ intake[2] = 0
    /\ intake[1] \in replied
    /\ worker[intake[3]].st = "none"

\* C6: Terminated is absorbing: once run() has returned no closure is alive,
\* the loop never runs again, no engine call happens, nothing enters the
\* queue, and a call submitted from then on returns RequestSendError.
C6_TerminatedAbsorbing ==
    /\ [](loop.pc = "terminated" => (Unfinished = {} /\ queue = <<>>))
    /\ [][loop.pc = "terminated" =>
            /\ loop' = loop
            /\ worker' = worker
            /\ linkLog' = linkLog
            /\ queue' = <<>>
            /\ intake' = intake
            /\ \A c \in Callers :
                   (callers[c].pc \in {"idle", "sending"}
                        /\ callers'[c].pc \notin {callers[c].pc, "gone"})
                     => callers'[c] = [pc |-> "returned", kind |-> "none",
                                       result |-> Err(<<"RequestSendError">>)]
         ]_vars

\* A call made after the loop ended returned RequestSendError.
C6_Witness ==
    /\ loop.pc = "terminated"
    /\ \E c \in Callers :
           /\ callers[c].result = Err(<<"RequestSendError">>)
           /\ IntakePos(c) = 0

\* C7: under fair scheduling no caller hangs: a caller inside a Client call
\* (suspended in send() or awaiting its reply) eventually returns, unless it
\* drops the call itself.
C7_NoCallerHangs ==
    \A c \in Callers :
        (callers[c].pc \in {"sending", "waiting"})
            ~> (callers[c].pc \in {"returned", "cancelled"})

\* A caller whose request was still queued when the loop ended observed a
\* receive failure.
C7_Witness ==
    \E c \in Callers :
        /\ callers[c].pc = "returned"
        /\ callers[c].result = Err(<<"ResponseReceiveError">>)
        /\ IntakePos(c) # 0
        /\ worker[c].st = "none"

\* The engine error carried by the value of a closure.
EngineErrorOf(result) == result.val[Len(result.val)]

\* C8: when the engine operation of a request failed and its caller still
\* awaits the reply, the loop sends the caller that very error wrapped as
\* Error::LoraE5, stays Running with the queue untouched, and the caller's
\* call returns exactly what was sent.
C8_EngineErrorDelivered ==
    [][/\ \A id \in Callers :
              (/\ loop.pc = "await" /\ loop.cur = id
               /\ worker[id].st = "finished" /\ ~worker[id].result.ok
               /\ worker'[id].st = "joined"
               /\ oneshot[id].st = "open")
                => /\ oneshot'[id] =
                          [st |-> "sent",
                           val |-> Err(<<"LoraE5",
                                         EngineErrorOf(worker[id].result)>>)]
                   /\ EngineErrorOf(worker[id].result) \in EngineErrors
                   /\ loop'.pc = "recv"
                   /\ queue' = queue
       /\ \A c \in Callers :
              (callers[c].pc = "waiting" /\ callers'[c].pc = "returned"
                   /\ oneshot[c].st = "sent")
                => callers'[c].result = oneshot[c].val
      ]_vars

\* A caller got a wrapped engine error and a request queued after its own
\* was served.
C8_Witness ==
    \E c, d \in Callers :
        /\ callers[c].pc = "returned"
        /\ callers[c].result = Err(<<"LoraE5", "PartialResponse">>)
        /\ IntakePos(c) # 0
        /\ IntakePos(c) < IntakePos(d)
        /\ d \in replied

(***************************************************************************)
(* Properties of read_until_pattern.                                       *)
(***************************************************************************)
\* C9: a call that ends without a terminator at the end of the bytes it
\* accumulated never succeeds; when those bytes decode, it ended on the
\* deadline and returns PartialResponse carrying exactly the bytes the reads
\* of this call delivered, in order.
C9_PartialResponseCarriesAll ==
    rdpc = "done" =>
        /\ rdres.ok => EndsWith(received, pattern)
        /\ (~rdres.ok /\ rdres.val[1] = "PartialResponse")
               => rdres.val[2] = received
        /\ (~EndsWith(received, pattern) /\ ValidUtf8(received))
               => /\ rdres = Err(<<"PartialResponse", received>>)
                  /\ sinceData > timeout

\* A call timed out with bytes that arrived in more than one read.
C9_Witness ==
    /\ rdpc = "done"
    /\ rdres = Err(<<"PartialResponse", received>>)
    /\ Len(received) >= 2
    /\ total > timeout

C11_SuccessAtTerminator ==
    /\ rdpc = "loop" => ~EndsWith(received, pattern)
    /\ rdpc = "done" =>
           /\ (EndsWith(received, pattern) /\ ValidUtf8(received))
                  => rdres = Ok(Len(received))
           /\ rdres.ok
                  => /\ EndsWith(received, pattern)
                     /\ rdres.val = Len(received)
                     /\ received = Accumulated(buf, cursor)

\* A call succeeded on a two-byte terminator after bytes that held a line
\* feed before their end.
C11_Witness ==
    /\ rdpc = "done"
    /\ rdres = Ok(BufCap)
    /\ pattern = <<"a", "nl">>
    /\ received[1] = "nl"

(***************************************************************************)
(* Properties of the reads from the port.                                  *)
(***************************************************************************)
\* C12, as claimed: a call during which the device's response outgrew the
\* buffer (a read found more bytes waiting than there was room for) never
\* returns success, and the cursor never passes the end of the buffer.
C12_OverflowIsError ==
    /\ cursor <= BufCap
    /\ (rdpc = "done" /\ overflow) => ~rdres.ok

(***************************************************************************)
(* Properties of the response parsers.                                     *)
(***************************************************************************)
\* C15, as claimed: for every response text framed_response either returns
\* the text after the prelude (the response starts with the prelude) or
\* fails with UnexpectedResponse carrying the whole response; it never
\* panics.
C15_FramedNeverPanics ==
    pres.fn = "framed_response" =>
        /\ pres.out # Panicked
        /\ \/ /\ pres.out.ok
              /\ text = pres.prelude \o pres.out.val
           \/ /\ ~pres.out.ok
              /\ pres.out.val = <<"UnexpectedResponse", text>>

(***************************************************************************)
(* Properties of the engine's operations.                                  *)
(***************************************************************************)
\* The command an entry of the history belongs to: a command makes three
\* port calls.
CommandOf(i) == Plan(eop)[(i + 2) \div 3]

\* The write at entry i took all its bytes.
Complete(i) ==
    /\ portLog[i].call = "write"
    /\ portLog[i].ret.ok
    /\ portLog[i].ret.val = Len(portLog[i].data)

\* The operation has returned an error.
Failed == epc = "done" /\ ~eres.ok /\ eres # Panicked

\* C13: write_command writes the command text and then the newline, each
\* with one write; a write that reports another byte count than the length
\* asked for is the last port call of the operation (no retry, no newline
\* after a short first write, no read) and the operation returns
\* IncorrectWrite with the two counts; a read is made only after both writes
\* were complete.
C13_ShortWriteIsFatal ==
    \A i \in 1..Len(portLog) :
        /\ i % 3 = 1 => /\ portLog[i].call = "write"
                        /\ portLog[i].data = CommandOf(i).cmd
        /\ i % 3 = 2 => /\ portLog[i].call = "write"
                        /\ portLog[i].data = "\n"
                        /\ Complete(i - 1)
        /\ i % 3 = 0 => /\ portLog[i].call = "read"
                        /\ Complete(i - 1)
                        /\ Complete(i - 2)
        /\ (portLog[i].call = "write" /\ ~Complete(i))
               => /\ i = Len(portLog)
                  /\ epc = "done"
                  /\ ~eres.ok
                  /\ portLog[i].ret.ok
                         => eres.val = <<"IncorrectWrite", portLog[i].ret.val,
                                         Len(portLog[i].data)>>

\* An operation failed on a short write of the newline of its second
\* command.
C13_Witness ==
    /\ epc = "done"
    /\ Len(portLog) = 5
    /\ ~eres.ok
    /\ eres.val = <<"IncorrectWrite", 0, 1>>

\* C14, as claimed: the bytes written for a command are its command text
\* followed by exactly one newline.
C14_OneNewline ==
    \A i \in 1..Len(portLog) :
        (i % 3 = 2 /\ Complete(i))
            => portLog[i - 1].data \o portLog[i].data
                   = CommandOf(i).text \o "\n"

\* The latest port call was a read that returned a terminated reply to an
\* echo-checked setter.
EchoRead ==
    /\ portLog # <<>>
    /\ portLog[Len(portLog)].call = "read"
    /\ portLog[Len(portLog)].ret.ok
    /\ CommandOf(Len(portLog)).check = "echo"

LatestReply == portLog[Len(portLog)].ret.val

\* The reply is the prelude, then the expected literal, then nothing but
\* characters of `trimmed`.
EchoMatches(reply, command, trimmed) ==
    LET head == command.prelude \o command.expect
    IN  /\ Len(reply) >= Len(head)
        /\ SubSeq(reply, 1, Len(head)) = head
        /\ \A j \in (Len(head) + 1)..Len(reply) : CharAt(reply, j) \in trimmed

\* The setter whose reply was read last succeeds exactly when the reply
\* matches up to trailing characters of `trimmed`; a reply that starts with
\* the prelude and goes on otherwise gives UnexpectedResponse with the
\* text after the prelude.
EchoRule(trimmed) ==
    EchoRead =>
        LET command == CommandOf(Len(portLog))
            reply == LatestReply
            prelude == command.prelude
        IN  /\ portLog[Len(portLog)].good
                   <=> EchoMatches(reply, command, trimmed)
            /\ portLog[Len(portLog)].good => ~Failed
            /\ (/\ ~EchoMatches(reply, command, trimmed)
                /\ Len(reply) >= Len(prelude)
                /\ SubSeq(reply, 1, Len(prelude)) = prelude)
                   => /\ Failed
                      /\ eres.val =
                             <<"UnexpectedResponse",
                               SubSeq(reply, Len(prelude) + 1, Len(reply))>>

\* C16, as claimed: an echo-checked setter succeeds exactly when the reply
\* is the prelude followed by a payload that equals the expected literal
\* once trailing CR and LF are trimmed; any other payload gives
\* UnexpectedResponse with that payload.
C16_EchoTrimsCrLf == EchoRule({"\r", "\n"})

\* C16, amended: the payload is compared after all its trailing whitespace
\* is trimmed (spaces and tabs as well as CR and LF); any other payload
\* after the prelude gives UnexpectedResponse with that payload, untrimmed.
C16_EchoTrimsWhitespace == EchoRule(Whitespace)

\* set_mode succeeded on a reply with a space before the line end.
C16_Witness ==
    /\ epc = "done"
    /\ eop = <<"set_mode", "Otaa">>
    /\ eres.ok
    /\ EchoRead
    /\ LatestReply = "+MODE: LWOTAA \r\n"

\* The channels the subband restriction is to disable, and the k-th of them
\* in ascending order.
DisabledChannels == (0..7) \cup (16..71)

NthChannel(k) ==
    CHOOSE c \in DisabledChannels :
        Cardinality({d \in DisabledChannels : d < c}) = k - 1

\* Commands of the operation begun so far.
Begun == (Len(portLog) + 2) \div 3

\* The subband restriction makes its channel-mask calls one after the
\* other, the k-th disabling the k-th channel of DisabledChannels in
\* ascending order, and has made `calls` of them when it succeeds.
SubbandRule(calls) ==
    eop = <<"subband2_only">> =>
        /\ \A k \in 1..Begun :
               portLog[3 * k - 2].data
                   = "AT+CH=" \o ToString(NthChannel(k)) \o ",off"
        /\ (epc = "done" /\ eres.ok) => Len(portLog) = 3 * calls

\* C17, as claimed: the subband restriction issues 80 channel-mask calls,
\* disabling channels 0-7 and 16-71 in ascending order.
C17_EightyChannelCalls == SubbandRule(80)

\* C17, amended: the calls are 64, one for each of the channels 0-7 and
\* 16-71, in ascending order.
C17_SixtyFourChannelCalls ==
    /\ Cardinality(DisabledChannels) = 64
    /\ SubbandRule(64)

\* The subband restriction succeeded.
C17_Witness ==
    /\ eop = <<"subband2_only">>
    /\ epc = "done"
    /\ eres.ok
    /\ portLog[Len(portLog) - 2].data = "AT+CH=71,off"

\* No port call follows a call that did not succeed; an operation that
\* ended returns success exactly when its last call succeeded, and then it
\* has run all its `commands`; otherwise it returns the error of its last
\* call.
StopsAtFirstFailure(commands) ==
    LET last == Len(portLog)
    IN  /\ \A i \in 1..(last - 1) : portLog[i].good
        /\ epc # "done" => \A i \in 1..last : portLog[i].good
        /\ epc = "done" =>
               /\ eres.ok <=> portLog[last].good
               /\ eres.ok => last = 3 * commands
               /\ (portLog[last].call = "read" /\ ~portLog[last].ret.ok)
                      => eres = portLog[last].ret
               /\ (/\ portLog[last].call = "read"
                   /\ portLog[last].ret.ok
                   /\ ~portLog[last].good
                   /\ eres # Panicked)
                      => eres.val[1] \in {"UnexpectedResponse", "Parse"}
               /\ portLog[last].call = "write"
                      => eres.val[1] \in {"IncorrectWrite", "Io"}

\* C18: in the subband restriction no port call follows a call that did
\* not succeed, so the first failing channel-mask call is the last one and
\* no later channel's command is written; the operation then returns that
\* call's error, and it returns success only when the calls for all the
\* channels were made and every one succeeded.
C18_FirstFailureAborts ==
    eop = <<"subband2_only">> => StopsAtFirstFailure(Cardinality(DisabledChannels))

\* The call for the second channel got a reply that does not match, and
\* the operation ended there with UnexpectedResponse.
C18_Witness ==
    /\ eop = <<"subband2_only">>
    /\ epc = "done"
    /\ Len(portLog) = 6
    /\ portLog[4].data = "AT+CH=1,off"
    /\ ~eres.ok
    /\ eres.val[1] = "UnexpectedResponse"

\* The latest port call was a read that returned a terminated reply to
\* set_dev_eui, set_app_eui or set_app_key.
IdentifierRead ==
    /\ portLog # <<>>
    /\ portLog[Len(portLog)].call = "read"
    /\ portLog[Len(portLog)].ret.ok
    /\ CommandOf(Len(portLog)).check = "id"

\* The commands of set_credentials, in order.
CredentialCommand(k, credentials) ==
    CASE k = 1 -> "AT+ID=DevEui, " \o Display(credentials.dev_eui)
      [] k = 2 -> "AT+ID=AppEui, " \o Display(credentials.app_eui)
      [] k = 3 -> "AT+KEY=APPKEY, " \o Display(credentials.app_key)

\* C19: an identifier setter goes on past its reply only if the reply is
\* the prelude and an echo that parses to exactly the bytes requested; an
\* echo that parses to other bytes makes the operation return
\* UnexpectedResponse.  set_credentials writes the DevEui, AppEui and AppKey
\* commands in that order and stops at the first call that fails.
C19_EchoMustEqualRequested ==
    /\ IdentifierRead =>
           LET command == CommandOf(Len(portLog))
               reply == LatestReply
               prelude == command.prelude
               framed == /\ Len(reply) >= Len(prelude)
                         /\ SubSeq(reply, 1, Len(prelude)) = prelude
               parsed == FromStr(TrimEnd(SubSeq(reply, Len(prelude) + 1,
                                                Len(reply))),
                                 Len(command.id))
           IN  /\ portLog[Len(portLog)].good
                      => (framed /\ parsed.ok /\ parsed.val = command.id)
               /\ (framed /\ parsed.ok /\ parsed.val # command.id)
                      => (Failed /\ eres.val[1] = "UnexpectedResponse")
    /\ eop[1] = "set_credentials" =>
           /\ \A k \in 1..Begun :
                  portLog[3 * k - 2].data = CredentialCommand(k, eop[2])
           /\ StopsAtFirstFailure(3)

\* set_credentials ended with UnexpectedResponse at its second command: the
\* device echoed an AppEui other than the one requested.
C19_Witness ==
    /\ eop[1] = "set_credentials"
    /\ epc = "done"
    /\ Len(portLog) = 6
    /\ ~eres.ok
    /\ eres.val = <<"UnexpectedResponse",
                    Display(OtherIdentifier(eop[2].app_eui))>>

\* The commands of a Configure request, in order.
ConfigureCommand(k, credentials) ==
    CASE k = 1 -> "AT+MODE=LWOTAA"
      [] k = 2 -> "AT+DR=US915"
      [] k \in 3..5 -> CredentialCommand(k - 2, credentials)
      [] k > 5 -> "AT+CH=" \o ToString(NthChannel(k - 5)) \o ",off"

\* C20: a Configure request writes the commands of set mode OTAA, set
\* region US915, set credentials and the subband restriction in that
\* order; no port call follows a step that failed and the request's result
\* is that step's error; the result is success only after the last command
\* of the subband restriction succeeded.
C20_ConfigureSequence ==
    eop[1] = "configure" =>
        /\ \A k \in 1..Begun :
               portLog[3 * k - 2].data = ConfigureCommand(k, eop[2])
        /\ StopsAtFirstFailure(5 + Cardinality(DisabledChannels))

\* A Configure request succeeded, its last command being that of channel
\* 71.
C20_Witness ==
    /\ eop[1] = "configure"
    /\ epc = "done"
    /\ eres.ok
    /\ portLog[1].data = "AT+MODE=LWOTAA"
    /\ portLog[Len(portLog) - 2].data = "AT+CH=71,off"

(***************************************************************************)
(* Properties of join and of the uplinks.                                  *)
(***************************************************************************)
\* The terminated reply the operation's last command read.
ReplyRead ==
    /\ epc = "done"
    /\ portLog # <<>>
    /\ portLog[Len(portLog)].call = "read"
    /\ portLog[Len(portLog)].ret.ok

\* C21: join (AT+JOIN) classifies the reply it accumulated by ordered
\* substring checks: a reply holding "+JOIN: Joined already\r\n" gives
\* AlreadyJoined, also when "Network joined" is in it too; otherwise one
\* holding "Network joined" gives JoinComplete; otherwise JoinFailed.  A
\* terminated reply never gives an error.
C21_JoinClassified ==
    (ReplyRead /\ eop \in {<<"join">>, <<"request_join", FALSE>>}) =>
        LET reply == LatestReply
            already == \E i \in 0..(Len(reply) - Len(ALREADY_JOINED)) :
                SubSeq(reply, i + 1, i + Len(ALREADY_JOINED)) = ALREADY_JOINED
            joined == \E i \in 0..(Len(reply) - Len("Network joined")) :
                SubSeq(reply, i + 1, i + Len("Network joined"))
                    = "Network joined"
        IN  /\ portLog[1].data = "AT+JOIN"
            /\ eres.ok
            /\ already => eres.val = "AlreadyJoined"
            /\ (~already /\ joined) => eres.val = "JoinComplete"
            /\ (~already /\ ~joined) => eres.val = "JoinFailed"

\* A join answered with both texts.
C21_Witness ==
    /\ ReplyRead
    /\ eop = <<"join">>
    /\ LatestReply = "+JOIN: Network joined\r\n" \o ALREADY_JOINED
    /\ eres = Ok("AlreadyJoined")

\* C22: a forced join (force_join, Request::Join with force = true) writes
\* AT+JOIN=FORCE, reads until the reply ends with "+JOIN: Done\r\n" and
\* never yields AlreadyJoined, whatever the device printed.
C22_ForcedJoinNeverAlreadyJoined ==
    (eop \in {<<"force_join">>, <<"request_join", TRUE>>}) =>
        /\ portLog # <<>> => portLog[1].data = "AT+JOIN=FORCE"
        /\ ReplyRead =>
               /\ SubSeq(LatestReply, Len(LatestReply) - Len(JOIN_DONE) + 1,
                         Len(LatestReply)) = JOIN_DONE
               /\ eres \in {Ok("JoinComplete"), Ok("JoinFailed")}
        /\ eres # Ok("AlreadyJoined")

\* A forced join whose reply says the device had joined already.
C22_Witness ==
    /\ ReplyRead
    /\ eop = <<"request_join", TRUE>>
    /\ LatestReply = ALREADY_JOINED \o JOIN_DONE
    /\ eres = Ok("JoinFailed")

\* An uplink (send, send_ascii) whose uplink command read a terminated reply.
UplinkRead ==
    /\ ReplyRead
    /\ eop[1] \in {"send", "send_ascii"}
    /\ Len(portLog) = 6

\* The offsets of a marker in the latest reply.
MarkerOffsets(marker) ==
    {i \in 0..(Len(LatestReply) - Len(marker)) :
        SubSeq(LatestReply, i + 1, i + Len(marker)) = marker}

FirstOffset(marker) ==
    CHOOSE i \in MarkerOffsets(marker) : \A j \in MarkerOffsets(marker) : i <= j

\* The result of an uplink that parsed its signal at offset m.
ParsedAt(m) ==
    LET parsed == ParseRssiSnr(LatestReply, m)
    IN  IF parsed.ok
        THEN eres = Ok(Some([rssi |-> parsed.val[1], snr |-> parsed.val[2]]))
        ELSE eres = parsed

\* C23: for send and send_ascii, a terminated reply with neither RXWIN1 nor
\* RXWIN2 gives Nack when confirmed and success with no downlink when not;
\* with a marker the result is the downlink parsed at the first RXWIN1
\* marker if there is one, else at the first RXWIN2 marker (or what that
\* parse failed with).
C23_UplinkResult ==
    UplinkRead =>
        LET confirmed == eop[4]
        IN  /\ (MarkerOffsets("RXWIN1") = {} /\ MarkerOffsets("RXWIN2") = {})
                   => eres = IF confirmed THEN Err(<<"Nack">>) ELSE Ok(None)
            /\ MarkerOffsets("RXWIN1") # {} => ParsedAt(FirstOffset("RXWIN1"))
            /\ (MarkerOffsets("RXWIN1") = {} /\ MarkerOffsets("RXWIN2") # {})
                   => ParsedAt(FirstOffset("RXWIN2"))

\* A reply with the RXWIN2 line before the RXWIN1 line: the downlink is that
\* of the RXWIN1 line.
C23_Witness ==
    /\ UplinkRead
    /\ MarkerOffsets("RXWIN1") # {}
    /\ MarkerOffsets("RXWIN2") # {}
    /\ FirstOffset("RXWIN2") < FirstOffset("RXWIN1")
    /\ eres = Ok(Some([rssi |-> -79, snr |-> [num |-> 7, exp |-> 0]]))

\* The line the device prints when the network acknowledged the uplink.
AckReceived == "ACK Received"

\* C24, as claimed: a confirmed uplink succeeds only if the network
\* acknowledged it; a confirmed send whose reply shows no acknowledgment
\* fails with Nack.
C24_ConfirmedNeedsAck ==
    (UplinkRead /\ eop[4] /\ ~Contains(LatestReply, AckReceived))
        => eres = Err(<<"Nack">>)

(***************************************************************************)
(* Properties of parse_rssi_snr and of the identifiers.                    *)
(***************************************************************************)
\* C25: when the text at the marker's offset is a line
\* "RXWIN1, RSSI <r>, SNR <s>\r\n" (or RXWIN2), parse_rssi_snr returns the
\* integer <r> and the number <s> of that line, whatever precedes and
\* follows it (RSSI -79 and SNR 7.0 for the response of the test).
C25_SignalOfTheLine ==
    pres.fn = "parse_rssi_snr" =>
        \A marker \in Markers, r \in RssiSamples, s \in SnrSamples :
            LET line == SignalLine(marker, r.text, s.text)
            IN  (/\ pres.m + Len(line) <= Len(text)
                 /\ SubSeq(text, pres.m + 1, pres.m + Len(line)) = line)
                    => pres.out = Ok(<<r.value, s.value>>)

\* The response of the test, parsed at its RXWIN1 marker.
C25_Witness ==
    /\ pres.fn = "parse_rssi_snr"
    /\ text = TestResponse
    /\ pres.out = Ok(<<-79, [num |-> 7, exp |-> 0]>>)

\* C26, as claimed: for every response text and marker offset
\* parse_rssi_snr returns numbers or one of its errors
\* (FailedToParseRssiSnr, FailedToParseRssiInt, FailedToParseSnrF32); it
\* never panics.
C26_SignalNeverPanics ==
    pres.fn = "parse_rssi_snr" =>
        /\ pres.out # Panicked
        /\ ~pres.out.ok =>
               pres.out.val[1] \in {"FailedToParseRssiSnr",
                                    "FailedToParseRssiInt",
                                    "FailedToParseSnrF32"}

\* The hex digits of a text, the colons left out.
HexDigitsOf(s) == {i \in 1..Len(s) : CharAt(s, i) # ":"}

\* A text of hex digits and colons with two digits for every byte.
IsHexText(s) ==
    /\ \A i \in HexDigitsOf(s) : IsHexDigit(CharAt(s, i))
    /\ Cardinality(HexDigitsOf(s)) % 2 = 0

DecodedLength(s) == Cardinality(HexDigitsOf(s)) \div 2

RECURSIVE UpperHex(_)
\* The hex digits of a text in upper case, the colons left out.
UpperHex(s) ==
    IF s = "" THEN ""
    ELSE (IF CharAt(s, 1) = ":" THEN ""
          ELSE CharAt(HexUpper, HexVal(CharAt(s, 1)) + 1))
             \o UpperHex(SubSeq(s, 2, Len(s)))

\* C27: for a hex text (colons allowed) whose decoded length is the
\* identifier's size (8 for DevEui and AppEui, 16 for AppKey), parsing
\* succeeds, displaying the identifier gives the upper-case hex of the text
\* without its colons, and parsing what was displayed gives an equal
\* identifier.
C27_ParseDisplayRoundTrip ==
    (/\ pres.fn = "from_str"
     /\ IsHexText(text)
     /\ DecodedLength(text) = pres.size)
        => /\ pres.out.ok
           /\ Len(pres.out.val) = pres.size
           /\ pres.shown = UpperHex(text)
           /\ pres.again = pres.out

\* A 16-byte key in lower case with colons.
C27_Witness ==
    /\ pres.fn = "from_str"
    /\ pres.size = KeySize
    /\ text = "72:f3:6b:99:61:79:e6:34:53:7f:ca:76:04:7d:0b:51"
    /\ pres.shown = "72F36B996179E634537FCA76047D0B51"
    /\ pres.again.ok

\* C28: parsing an identifier from a valid hex text whose decoded length is
\* not the declared size, shorter or longer, fails with VecWrongSize
\* carrying the decoded length; nothing is padded or truncated, and
\* nothing panics.
C28_WrongSizeRejected ==
    (/\ pres.fn = "from_str"
     /\ IsHexText(text)
     /\ DecodedLength(text) # pres.size)
        => pres.out = Err(<<"VecWrongSize", DecodedLength(text)>>)

\* Nine bytes for an identifier of eight.
C28_Witness ==
    /\ pres.fn = "from_str"
    /\ pres.size = EuiSize
    /\ text = "60:81:F9:A7:75:27:85:64:00"
    /\ pres.out = Err(<<"VecWrongSize", 9>>)

(***************************************************************************)
(* Properties of the port and channel commands.                            *)
(***************************************************************************)
\* An uplink command: AT+MSG, AT+CMSG, AT+MSGHEX or AT+CMSGHEX.
IsUplinkCommand(data) ==
    \/ Len(data) >= 6 /\ SubSeq(data, 1, 6) = "AT+MSG"
    \/ Len(data) >= 7 /\ SubSeq(data, 1, 7) = "AT+CMSG"

\* C29: send and send_ascii set the port before the uplink: AT+PORT=<port>
\* is the first command written, the uplink command is written only after
\* the reply to it was read and validated, and when set_port fails the
\* operation ends there with set_port's result (its error; no result when
\* framed_response panics on a reply shorter than the prelude).
C29_PortBeforeUplink ==
    eop[1] \in {"send", "send_ascii"} =>
        /\ portLog # <<>> => portLog[1].data = "AT+PORT=" \o ToString(eop[3])
        /\ \A i \in 1..Len(portLog) :
               (portLog[i].call = "write" /\ IsUplinkCommand(portLog[i].data))
                   => /\ i = 4
                      /\ portLog[3].call = "read"
                      /\ portLog[3].good
        /\ (epc = "done" /\ Len(portLog) <= 3) =>
               /\ ~eres.ok
               /\ ~portLog[Len(portLog)].good
               /\ Len(portLog) < 3 => eres.val[1] \in {"IncorrectWrite", "Io"}
               /\ (Len(portLog) = 3 /\ ~portLog[3].ret.ok)
                      => eres = portLog[3].ret
               /\ (Len(portLog) = 3 /\ portLog[3].ret.ok)
                      => eres = CheckFramedResponse(
                                    LatestReply, "+PORT: ", ToString(eop[3]))

\* A send_ascii whose set_port read another port number back.
C29_Witness ==
    /\ eop[1] = "send_ascii"
    /\ epc = "done"
    /\ Len(portLog) = 3
    /\ portLog[3].ret = Ok("+PORT: 50\r\n")
    /\ eres = Err(<<"UnexpectedResponse", "50\r\n">>)

\* C30: set_channel(ch, enable) writes "AT+CH=<ch>,on" when enable is true
\* and "AT+CH=<ch>,off" otherwise, and for both values of enable it
\* succeeds exactly when the reply is "+CH: CH" followed by "<ch> off" and
\* the white space that ends the line.
C30_ChannelCommand ==
    eop[1] = "set_channel" =>
        /\ portLog # <<>> =>
               portLog[1].data =
                   "AT+CH=" \o ToString(eop[2])
                       \o (IF eop[3] THEN ",on" ELSE ",off")
        /\ ReplyRead =>
               (eres.ok <=>
                    \E e \in Terminators :
                        LatestReply = "+CH: CH" \o ToString(eop[2])
                                          \o " off" \o e)

\* A channel enabled, the reply "+CH: CH8 off".
C30_Witness ==
    /\ eop = <<"set_channel", 8, TRUE>>
    /\ ReplyRead
    /\ portLog[1].data = "AT+CH=8,on"
    /\ LatestReply = "+CH: CH8 off\r\n"
    /\ eres.ok

(***************************************************************************)
(* Properties of consecutive reads on one session.                         *)
(***************************************************************************)
\* C31, as claimed: the response a call returns holds only bytes the device
\* sent after the call's command was written; bytes of an earlier reply
\* that were waiting unread at the port are never part of it.
C31_NoStaleBytes ==
    (rdpc = "done" /\ rdres.ok) => taken = 0

\* C33: a read that returns Err is never surfaced as an I/O error: it is
\* taken as no data (cursor and buffer are left as they were), the call
\* returns nothing but a count, Utf8 or PartialResponse, a failed read ends
\* it only on the deadline with PartialResponse, and a call all of whose
\* reads failed ends, once its timeout has passed, with PartialResponse of
\* no bytes.
C33_ReadErrorsIgnored ==
    [][/\ (rdpc = "loop" /\ lastErr') => (cursor' = cursor /\ buf' = buf)
       /\ rdres'.ok \/ rdres'.val[1] \in {"pending", "Utf8", "PartialResponse"}
       /\ (rdpc = "loop" /\ rdpc' = "done" /\ lastErr')
              => /\ rdres' = Err(<<"PartialResponse", Accumulated(buf, cursor)>>)
                 /\ elapsed' > timeout
       /\ (rdpc' = "loop" /\ allErr') => (cursor' = 0 /\ elapsed' <= timeout)
       /\ (rdpc' = "done" /\ allErr')
              => /\ rdres' = Err(<<"PartialResponse", <<>>>>)
                 /\ total' > timeout]_vars

\* Every read of a call failed while the device's bytes were waiting.
C33_Witness ==
    /\ rdpc = "done"
    /\ allErr
    /\ lastErr
    /\ wire # <<>>
    /\ timeout = MaxTimeout
    /\ rdres = Err(<<"PartialResponse", <<>>>>)

\* C32: the timeout clock restarts at every read that returns at least one
\* byte and is never restarted by a read that returns none (empty or
\* failed): it then runs on by the time the read took.  PartialResponse is
\* returned only when more than the timeout has passed since the last byte
\* was received (since the call started if none was).
C32_ClockRestartsOnData ==
    [][rdpc = "loop" =>
          /\ (received' # received) => elapsed' = 0
          /\ (received' = received)
                 => elapsed' = elapsed + (total' - total)
          /\ elapsed' = sinceData'
          /\ (~rdres'.ok /\ rdres'.val[1] = "PartialResponse")
                 => sinceData' > timeout]_vars

\* A call received one byte, then read nothing until more than the timeout
\* had passed since that byte, and timed out.
C32_Witness ==
    /\ rdpc = "done"
    /\ rdres = Err(<<"PartialResponse", received>>)
    /\ Len(received) = 1
    /\ elapsed > timeout
    /\ total > elapsed
    /\ timeout > 0

(***************************************************************************)
(* Properties of the dispatch loop around a panicking closure and of the    *)
(* replies.                                                                 *)
(***************************************************************************)
\* The request whose closure panicked: the last one that used the link.
PanickedRequest == linkLog[Len(linkLog)]

\* C34: once a closure has panicked inside an engine operation, the loop
\* does nothing but return Error::Join: no reply is sent from then on (not
\* to the panicked request, not to one queued after it), no closure is
\* spawned or runs, the session is never used again, and a caller that still
\* awaits the reply of the panicked request or of a request queued after it
\* returns ResponseReceiveError.
C34_PanicEndsLoop ==
    /\ [](poisoned =>
            /\ PanickedRequest \notin replied
            /\ loop.pc = "await"
                   => (loop.cur = PanickedRequest
                         /\ worker[PanickedRequest].st = "panicked")
            /\ loop.pc # "await"
                   => (loop.pc = "terminated" /\ loop.exit = "Join"
                         /\ queue = <<>>)
            /\ mutex = 0
            /\ \A c \in Callers :
                   /\ worker[c].st \notin {"spawned", "running", "finished"}
                   /\ (callers[c].pc = "returned" /\ IntakePos(c) # 0
                         /\ IntakePos(c) >= IntakePos(PanickedRequest))
                        => callers[c].result = Err(<<"ResponseReceiveError">>))
    /\ [][poisoned =>
            /\ linkLog' = linkLog
            /\ replied' = replied
            /\ replyFailed' = replyFailed
            /\ mutex' = mutex
            /\ loop' # loop => loop'.exit = "Join"]_vars

\* A closure panicked with another request queued behind it; the loop ended
\* with Error::Join and both callers observed the receive failure.
C34_Witness ==
    /\ poisoned
    /\ loop.exit = "Join"
    /\ Len(intake) = 2
    /\ intake[1] = PanickedRequest
    /\ intake[2] \notin {0, PanickedRequest}
    /\ worker[intake[2]].st = "none"
    /\ \A c \in Callers :
           /\ callers[c].pc = "returned"
           /\ callers[c].result = Err(<<"ResponseReceiveError">>)

\* C35, as claimed: every request the loop has serviced (dequeued, its
\* closure awaited) has had its reply sent; a reply is sent on the channel
\* of the request being handled only, once, and only when the closure of
\* that request has returned.
C35_ExactlyOneReply ==
    /\ [](\A id \in Callers :
             worker[id].st = "joined" => id \in replied \cup replyFailed)
    /\ [][\A id \in Callers :
             /\ (id \in replied' \ replied)
                    => /\ loop.pc = "await" /\ loop.cur = id
                       /\ worker[id].st = "finished"
                       /\ oneshot[id].st = "open"
                       /\ oneshot'[id] =
                              [st |-> "sent", val |-> ReplyOf(worker[id].result)]
             /\ (oneshot'[id].st = "sent" /\ oneshot[id].st # "sent")
                    => id \in replied' \ replied]_vars

(***************************************************************************)
(* Properties of the liveness check.                                        *)
(***************************************************************************)
\* is_ok has ended.
IsOkEnded == epc = "done" /\ eop = <<"is_ok">>

\* The reply is the prelude "+AT: " followed by a payload that trims to
\* "OK".
IsOkReply(reply) ==
    /\ Len(reply) >= Len("+AT: OK")
    /\ SubSeq(reply, 1, Len("+AT: OK")) = "+AT: OK"
    /\ \A j \in (Len("+AT: OK") + 1)..Len(reply) : CharAt(reply, j) \in Whitespace

\* C36, as claimed: is_ok returns Ok(true) exactly when the reply is the
\* prelude "+AT: " followed by a payload that trims to "OK", Ok(false) for
\* any other terminated reply, and an error only when the command write or
\* the read of the response failed.
C36_IsOkTrueFalseOrIoError ==
    IsOkEnded =>
        LET last == portLog[Len(portLog)]
        IN  /\ (last.call = "read" /\ last.ret.ok)
                   => eres = IF IsOkReply(last.ret.val)
                             THEN Ok("true") ELSE Ok("false")
            /\ eres.ok => (last.call = "read" /\ last.ret.ok)
            /\ (last.call = "write" \/ ~last.ret.ok)
                   => (~eres.ok /\ eres # Panicked)
====
